---- MODULE Spec2Model ----
(***************************************************************************)
(* A model of the startGGSeeder ingestion pipeline.                        *)
(*                                                                         *)
(*   SpecQuery : query.run_query, one action per answer of the endpoint    *)
(*               (src/query.py).                                           *)
(*   SpecEvent : EventProcessor.process_event with its sub-batches,        *)
(*               RatingService.apply_matches and the ranking table         *)
(*               (src/repos/tournament_processor.py,                       *)
(*                src/service/rating_service.py,                           *)
(*                src/repos/player_repository.py).                         *)
(***************************************************************************)
EXTENDS Integers, Sequences, FiniteSets, TLC

VARIABLES
    \* ---- query.run_query --------------------------------------------
    rq_pc,          \* "request" | "returned" | "raised"
    retries,        \* the local counter `retries` of run_query
    max_retries,    \* max(0, int(SGG_MAX_RETRIES))
    sleep_time,     \* argument of the latest time.sleep (0: none yet)
    rq_last,        \* the answer handled last
    rq_err,         \* which raise ended the call ("none" while it runs)
    rq_obs,         \* observer: how many answers of each kind were handled
    \* ---- the persistence collaborator (one game's tables) ------------
    db_ranking,     \* table ranking: [order: row order, row: player id -> row]
    db_names,       \* table player_table: player id -> name
    db_history,     \* table history: the inserted rows, in order
    \* ---- the run's inputs -------------------------------------------
    payload,        \* the entrant/set payload of the event: [entrants, sets]
    save_history,   \* a HistoryRepository is configured (--save-history)
    \* ---- EventProcessor.process_event -------------------------------
    ev_pc,          \* "idle" | "batch" | "save" | "raised"; "rating" | "rated"
    players,        \* the dict `players`: [order: insertion order, p: id -> Player]
    name_map,       \* the dict `name_map`
    entrant_to_player,
    entrant_ids,
    seen_sets,
    batch_i,        \* the loop variable i of the sub-batch loop
    events_started, \* process_event calls of the run so far
    obs,            \* observer: snapshots and logs of the calls made
    \* TournamentProcessor.process_tournament (repos/tournament_processor.py)
    tn_call,        \* how the caller wrote the call: arguments passed
    tn_upstream,    \* the events start.gg has for the tournament
    db_videogame_mapping,  \* table videogame_mapping: the ids stored
    tn,             \* position and locals of process_tournament
    tn_obs,         \* observer: answers received, persistence calls made
    \* main (seed_tournaments.py)
    args,           \* the parsed command line
    nodes,          \* nodes_iter: the tournament summaries of the run
    db_last_updated,  \* table last_updated: the timestamp stored for the key
    run,            \* position and locals of main
    run_obs,        \* observer: calls made by main
    \* query.fetch_tournaments_paginated
    pg,             \* position and locals of the generator
    pg_obs,         \* observer: the requests made and the nodes yielded
    \* SupabaseService._with_retries (service/supabase_service.py)
    sb,             \* position, locals and configuration of the call
    sb_obs          \* observer: calls of the operation, errors, sleeps

rqVars == <<rq_pc, retries, max_retries, sleep_time, rq_last, rq_err, rq_obs>>

dbVars == <<db_ranking, db_names, db_history>>

evVars == <<payload, save_history, ev_pc, players, name_map, entrant_to_player,
            entrant_ids, seen_sets, batch_i, events_started, obs>>

tnVars == <<tn_call, tn_upstream, db_videogame_mapping, tn, tn_obs>>

mainVars == <<args, nodes, db_last_updated, run, run_obs>>

pageVars == <<pg, pg_obs>>

sbVars == <<sb, sb_obs>>

vars == <<rqVars, dbVars, evVars, tnVars, mainVars, pageVars, sbVars>>

-----------------------------------------------------------------------------
(* Bounds of the model *)

\* answers handled in one run_query call
MaxResponses == 22
\* largest value of SGG_MAX_RETRIES that is tried (the default is 5): large
\* enough for a retried timeout beyond the cap of the exponent
MaxRetriesEnv == 7

-----------------------------------------------------------------------------
(* query.run_query *)

base_sleep_429 == 30
base_sleep_timeout == 5
base_sleep_connection == 30
sleep_503 == 60
\* `if retries > 9`
retry_reset_after == 9
\* `2 ** min(retries, 6)`
timeout_exp_cap == 6

Min(a, b) == IF a < b THEN a ELSE b
Max(a, b) == IF a > b THEN a ELSE b

ResetRetries429Late(r) == IF r > retry_reset_after + 1 THEN 0 ELSE r

\* query.py:693-694  if retries > 9: retries = 0
ResetRetries429(r) == IF r > retry_reset_after THEN 0 ELSE r

\* query.py:695
Sleep429(r) == base_sleep_429 * (2 ^ r)

SleepTimeoutUncapped(r) == base_sleep_timeout * (2 ^ r)

\* query.py:723
SleepTimeout(r) == base_sleep_timeout * (2 ^ Min(r, timeout_exp_cap))

Handle429Escalating(r, m) ==
    IF r + 1 > m THEN [pc |-> "raised", err |-> "rate_limit"]
                 ELSE [pc |-> "request", err |-> "none"]

\* query.py:692-703: the 429 branch sleeps and continues the loop; it has no raise
Handle429(r, m) == [pc |-> "request", err |-> "none"]

\* a 200 answer whose payload has an "errors" field is tried again
Handle200RetryingErrors(body) == IF body = "errors" THEN "request" ELSE "returned"

\* query.py:689-690: return response.json(), whatever the payload holds
Handle200(body) == "returned"

\* the 503 branch counts against max_retries like a timeout
Handle503Bounded(r, m) ==
    [pc |-> IF r + 1 > m THEN "raised" ELSE "request", retries |-> r + 1,
     sleep |-> sleep_503]

\* query.py:705-710: sleep 60 seconds and continue; retries is not touched
Handle503(r, m) == [pc |-> "request", retries |-> r, sleep |-> sleep_503]

SleepConnectionGrowing(r) == base_sleep_connection * (2 ^ r)

\* query.py:741
SleepConnection(r) == base_sleep_connection

\* the kinds of payload of a 200 answer: data, or an "errors" field
Bodies == {"data", "errors"}

Observe(kind) == [rq_obs EXCEPT ![kind] = @ + 1, !.total = @ + 1]

EmptyFn == [x \in {} |-> 0]

NoObs == [loaded |-> EmptyFn, at_start |-> EmptyFn, call_start |-> EmptyFn,
          call_updates |-> <<>>, ev_matches |-> <<>>, ev_updates |-> <<>>,
          run_matches |-> <<>>, answered |-> {}, errors |-> 0, run_errors |-> 0,
          persisted |-> FALSE, batches |-> <<>>, applies |-> 0,
          null_alias |-> 0, call_matches |-> <<>>, ops |-> <<>>,
          ingested |-> 0, first_saved |-> EmptyFn]

NoCall == [positional |-> 0, keywords |-> {}]

\* process_tournament is not running
TournamentPartIdle ==
    /\ tn_call = [args |-> NoCall, saved_games |-> FALSE]
    /\ tn_upstream = <<>>
    /\ db_videogame_mapping = {}
    /\ tn = [pc |-> "idle", events |-> <<>>, videogame_map |-> {}, i |-> 0]
    /\ tn_obs = [errors |-> FALSE, writes |-> <<>>, aliases |-> 0, stored |-> {}]

\* Python's None where the program expects an integer
None == -1

\* fetch_tournaments_paginated is not running
PagesPartIdle ==
    /\ pg = [pc |-> "idle", page |-> 0, total_pages |-> 0, pending |-> 0]
    /\ pg_obs = [requests |-> <<>>, yielded |-> <<>>]

\* no exception yet
NoErr == [mod |-> <<>>, name |-> "none"]

\* no call of SupabaseService is running
ServicePartIdle ==
    /\ sb = [pc |-> "idle", attempt |-> 0, max_retries |-> 0, base_sleep |-> 0,
             sleep_time |-> 0]
    /\ sb_obs = [calls |-> 0, last |-> NoErr, resets |-> 0, slept |-> 0]

\* main is not running
MainPartIdle ==
    /\ args = [after_date |-> None, dry_run |-> FALSE, continue_on_error |-> FALSE,
               max_errors |-> 0, max_tournaments |-> None]
    /\ nodes = <<>>
    /\ db_last_updated = None
    /\ run = [pc |-> "idle", i |-> 0, after_date |-> 0, max_end_at |-> 0,
              processed_max_end_at |-> 0, processed |-> 0, failed |-> 0,
              failed_slugs |-> <<>>, seen |-> 0]
    /\ run_obs = [before |-> None, handed |-> <<>>, completed |-> <<>>,
                  upstream_failed |-> FALSE, stamps |-> <<>>]

\* the part of the state SpecQuery does not use
EventPartIdle ==
    /\ db_ranking = [order |-> <<>>, row |-> EmptyFn]
    /\ db_names = EmptyFn
    /\ db_history = <<>>
    /\ payload = [entrants |-> <<>>, sets |-> <<>>]
    /\ save_history = FALSE
    /\ ev_pc = "idle"
    /\ players = [order |-> <<>>, p |-> EmptyFn]
    /\ name_map = EmptyFn
    /\ entrant_to_player = EmptyFn
    /\ entrant_ids = <<>>
    /\ seen_sets = {}
    /\ batch_i = 0
    /\ events_started = 0
    /\ obs = NoObs

InitQuery ==
    /\ PagesPartIdle
    /\ ServicePartIdle
    /\ EventPartIdle
    /\ TournamentPartIdle
    /\ MainPartIdle
    /\ rq_pc = "request"
    /\ retries = 0                       \* every caller uses the default retries=0
    /\ max_retries \in 0..MaxRetriesEnv  \* query.py:671-674
    /\ sleep_time = 0
    /\ rq_last = "none"
    /\ rq_err = "none"
    /\ rq_obs = [total |-> 0, ok |-> 0, rate |-> 0, unavailable |-> 0,
                 status |-> 0, timeout |-> 0, connection |-> 0, body |-> "none"]

Requesting == rq_pc = "request" /\ rq_obs.total < MaxResponses

\* query.py:689-690
Respond200 ==
    /\ Requesting
    /\ \E body \in Bodies :
          /\ rq_pc' = Handle200(body)
          /\ rq_obs' = [Observe("ok") EXCEPT !.body = body]
    /\ rq_last' = "200"
    /\ UNCHANGED <<retries, max_retries, sleep_time, rq_err>>
    /\ UNCHANGED <<dbVars, evVars, tnVars, mainVars, pageVars, sbVars>>

\* query.py:692-703
Respond429 ==
    /\ Requesting
    /\ LET r == ResetRetries429(retries)
           h == Handle429(r, max_retries)
       IN /\ sleep_time' = Sleep429(r)
          /\ retries' = r + 1
          /\ rq_pc' = h.pc
          /\ rq_err' = h.err
    /\ rq_last' = "429"
    /\ rq_obs' = Observe("rate")
    /\ UNCHANGED max_retries
    /\ UNCHANGED <<dbVars, evVars, tnVars, mainVars, pageVars, sbVars>>

\* query.py:705-710
Respond503 ==
    /\ Requesting
    /\ LET h == Handle503(retries, max_retries)
       IN /\ sleep_time' = h.sleep
          /\ retries' = h.retries
          /\ rq_pc' = h.pc
    /\ rq_last' = "503"
    /\ rq_obs' = Observe("unavailable")
    /\ UNCHANGED <<max_retries, rq_err>>
    /\ UNCHANGED <<dbVars, evVars, tnVars, mainVars, pageVars, sbVars>>

\* query.py:712-714
RespondOtherStatus ==
    /\ Requesting
    /\ rq_pc' = "raised"
    /\ rq_err' = "status"
    /\ rq_last' = "other"
    /\ rq_obs' = Observe("status")
    /\ UNCHANGED <<retries, max_retries, sleep_time>>
    /\ UNCHANGED <<dbVars, evVars, tnVars, mainVars, pageVars, sbVars>>

\* query.py:716-730
RespondTimeout ==
    /\ Requesting
    /\ retries' = retries + 1
    /\ IF retries + 1 > max_retries
       THEN /\ rq_pc' = "raised"
            /\ rq_err' = "timeout"
            /\ UNCHANGED sleep_time
       ELSE /\ sleep_time' = SleepTimeout(retries + 1)
            /\ UNCHANGED <<rq_pc, rq_err>>
    /\ rq_last' = "timeout"
    /\ rq_obs' = Observe("timeout")
    /\ UNCHANGED max_retries
    /\ UNCHANGED <<dbVars, evVars, tnVars, mainVars, pageVars, sbVars>>

\* query.py:732-742
RespondConnectionError ==
    /\ Requesting
    /\ retries' = retries + 1
    /\ IF retries + 1 > max_retries
       THEN /\ rq_pc' = "raised"
            /\ rq_err' = "connection"
            /\ UNCHANGED sleep_time
       ELSE /\ sleep_time' = SleepConnection(retries + 1)
            /\ UNCHANGED <<rq_pc, rq_err>>
    /\ rq_last' = "connection"
    /\ rq_obs' = Observe("connection")
    /\ UNCHANGED max_retries
    /\ UNCHANGED <<dbVars, evVars, tnVars, mainVars, pageVars, sbVars>>

NextQuery ==
    \/ Respond200
    \/ Respond429
    \/ Respond503
    \/ RespondOtherStatus
    \/ RespondTimeout
    \/ RespondConnectionError

SpecQuery == InitQuery /\ [][NextQuery]_vars

-----------------------------------------------------------------------------
(* Claims about run_query *)

Only429 == rq_obs.total = rq_obs.rate

\* C7: in a call that starts with retries = 0 and has received only 429
\* answers, the k-th sleep lasts 30 * 2^((k-1) mod 10) seconds: 30*2^i for
\* i = 0..9, then 30 again, with period 10.
C7_Backoff429Cycle ==
    (Only429 /\ rq_obs.rate >= 1) =>
        /\ sleep_time = base_sleep_429 * (2 ^ ((rq_obs.rate - 1) % 10))
        /\ rq_pc = "request"

C7_Witness ==
    /\ Only429
    /\ rq_obs.rate = 21
    /\ sleep_time = base_sleep_429

\* C8: a 429 answer never ends the call: whatever was answered before, once
\* a 429 has been handled the call has slept and is about to request again.
C8_RateLimitNeverFatal ==
    rq_last = "429" =>
        /\ rq_pc = "request"
        /\ rq_err = "none"
        /\ sleep_time >= base_sleep_429

C8_Witness ==
    /\ rq_last = "429"
    /\ retries > max_retries
    /\ rq_obs.timeout + rq_obs.connection > 0
    /\ rq_pc = "request"

\* C9: the fatal error for a timeout or a connection failure is raised only
\* after more than max_retries timeouts/connection failures of this call.
C9_FatalOnlyAfterBound ==
    rq_err \in {"timeout", "connection"} =>
        rq_obs.timeout + rq_obs.connection > max_retries

TimeoutsRetried ==
    rq_obs.timeout - (IF rq_err = "timeout" THEN 1 ELSE 0)

\* C10: at most max_retries timeouts of one call are retried.
C10_TimeoutRetriesBounded == TimeoutsRetried <= max_retries

\* C24: a 503 answer is always followed by a sleep of 60 seconds and another
\* request, however many 503 answers came before, and leaves the retry
\* counter as it was.
C24_UnavailableSleepsAndRetries ==
    [][rq_last' = "503" =>
           /\ sleep_time' = 60
           /\ rq_pc' = "request"
           /\ retries' = retries]_vars

\* more 503 answers than max_retries, after a retried timeout whose count
\* is still in the retry counter
C24_Witness ==
    /\ rq_last = "503"
    /\ rq_pc = "request"
    /\ rq_obs.unavailable > max_retries + 1
    /\ rq_obs.timeout = 1
    /\ retries = 1
    /\ sleep_time = sleep_503

\* C25: a 200 answer ends the call with its payload, also a payload with an
\* "errors" field, and a status other than 200, 429 and 503 raises; either
\* answer is the last one of the call.
C25_OkAndOtherStatusEndCall ==
    rq_obs.ok + rq_obs.status > 0 =>
        /\ rq_obs.ok + rq_obs.status = 1
        /\ \/ /\ rq_last = "200"
              /\ rq_pc = "returned"
              /\ rq_obs.body \in Bodies
              /\ rq_err = "none"
           \/ /\ rq_last = "other"
              /\ rq_pc = "raised"
              /\ rq_err = "status"

\* a 200 answer with an "errors" payload after a 429 and a 503
C25_Witness ==
    /\ rq_last = "200"
    /\ rq_obs.body = "errors"
    /\ rq_pc = "returned"
    /\ rq_obs.rate > 0
    /\ rq_obs.unavailable > 0

\* C26: a retried connection failure is followed by a sleep of 30 seconds
\* whatever the retry counter is, and a connection failure is fatal as soon
\* as the incremented retry counter exceeds max_retries.
C26_ConnectionFixedSleep ==
    rq_last = "connection" =>
        IF retries > max_retries
        THEN rq_pc = "raised" /\ rq_err = "connection"
        ELSE rq_pc = "request" /\ rq_err = "none" /\ sleep_time = 30

\* the third connection failure in a row is retried
C26_Witness ==
    /\ rq_last = "connection"
    /\ rq_pc = "request"
    /\ rq_obs.connection = 3
    /\ retries = 3
    /\ sleep_time = base_sleep_connection

\* C27: the sleep after a retried timeout is 5 * 2^min(retries, 6) with the
\* incremented counter; from one timeout to the next it does not decrease,
\* it doubles while the exponent is at most 6, and it is at most 320.
C27_TimeoutBackoffCapped ==
    [][(rq_last' = "timeout" /\ rq_pc' = "request") =>
           /\ sleep_time' = 5 * (2 ^ Min(retries', 6))
           /\ sleep_time' <= 320
           /\ rq_last = "timeout" =>
                  /\ sleep_time' >= sleep_time
                  /\ retries' <= 6 => sleep_time' = 2 * sleep_time]_vars

\* seven timeouts in a row: the exponent has passed the cap
C27_Witness ==
    /\ rq_last = "timeout"
    /\ rq_pc = "request"
    /\ rq_obs.timeout = 7
    /\ rq_obs.total = 7
    /\ retries = 7
    /\ sleep_time = 320

-----------------------------------------------------------------------------
(* Bounds of the event model *)

\* entrants of an event that fits one sub-batch
SmallEntrants == 2
\* entrants beyond the first sub-batch of an event that needs two
MaxOverflow == 2
\* sets of the event
MaxSets == 2
\* process_event calls of one run
MaxEvents == 2
\* set requests of one run answered with an "errors" payload, or with data
\* in which an alias is null
MaxErrorPayloads == 1

-----------------------------------------------------------------------------
(* Inputs: the event payload and the stored tables *)

\* tournament_processor.py:16
max_batch_size == 25

\* glicko2.Player() as constructed at tournament_processor.py:33
\* (vol in hundredths)
DefaultRating == 1500
DefaultRd == 350
DefaultVol == 6

\* winnerId of a set that names neither slot
NoWinner == 0

\* the player behind entrant e; with dup the second entrant is a second
\* registration of the first entrant's player
PlayerOf(e, dup) == IF dup /\ e = 2 THEN 101 ELSE 100 + e

\* an event that fits one sub-batch, and one that needs a second one
EntrantCounts == {SmallEntrants, max_batch_size + MaxOverflow}

\* event['entrants']['nodes'], participants[0] of each entrant
EntrantNodes(n, dup) ==
    [e \in 1..n |-> [id |-> e, player |-> PlayerOf(e, dup), gamerTag |-> PlayerOf(e, dup)]]

\* the first entrant of the second sub-batch
Boundary == max_batch_size + 1

\* who met whom and who won: inside the first sub-batch, across the
\* sub-batch boundary, inside the second sub-batch
SetShapes ==
    << [slots |-> <<1, 2>>, winnerId |-> 1],
       [slots |-> <<1, 2>>, winnerId |-> 2],
       [slots |-> <<1, 2>>, winnerId |-> NoWinner],
       [slots |-> <<1, Boundary>>, winnerId |-> 1],
       [slots |-> <<1, Boundary>>, winnerId |-> Boundary],
       [slots |-> <<Boundary, Boundary + 1>>, winnerId |-> Boundary],
       [slots |-> <<Boundary, Boundary + 1>>, winnerId |-> Boundary + 1] >>

\* up to MaxSets sets of different shapes, listed in the order of SetShapes
\* (a set's id is its place in the listing, so another order only renames
\* the sets)
SetLists ==
    UNION {{sh \in [1..m -> 1..Len(SetShapes)] : \A i \in 1..(m - 1) : sh[i] < sh[i + 1]} :
              m \in 0..MaxSets}

\* the sets of the event
SetNodes(sh) ==
    [i \in 1..Len(sh) |->
        [id |-> i, winnerId |-> SetShapes[sh[i]].winnerId, slots |-> SetShapes[sh[i]].slots]]

Payloads ==
    {[entrants |-> EntrantNodes(n, dup), sets |-> SetNodes(sh)] :
        n \in EntrantCounts, dup \in BOOLEAN, sh \in SetLists}

\* rows of table ranking before the run, in the order select returns them
KnownOrders == {<<>>, <<101, 100 + max_batch_size + 1>>, <<100 + max_batch_size + 1, 101>>}

StoredRow(pid) ==
    [rating |-> IF pid = 101 THEN 1600 ELSE 1450, rd |-> 200, vol |-> 6,
     appearances |-> 3, ranking |-> IF pid = 101 THEN 1 ELSE 2, name |-> pid]

Range(s) == {s[i] : i \in 1..Len(s)}

RECURSIVE Concat(_)
\* the sequences of a sequence, put one after the other
Concat(seqs) == IF seqs = <<>> THEN <<>> ELSE Head(seqs) \o Concat(Tail(seqs))

StoredRanking(order) == [order |-> order, row |-> [pid \in Range(order) |-> StoredRow(pid)]]

-----------------------------------------------------------------------------
(* PlayerRepository *)

\* player_repository.py:10-23
load_players ==
    [order |-> db_ranking.order,
     p |-> [pid \in DOMAIN db_ranking.row |->
              [rating |-> db_ranking.row[pid].rating,
               rd |-> db_ranking.row[pid].rd,
               vol |-> db_ranking.row[pid].vol,
               appearances |-> db_ranking.row[pid].appearances]]]

\* player_repository.py:25-27
load_names == db_names

\* a sort that is not stable: a player goes before the players already
\* placed whose rating is equal
InsertSortedUnstable(sorted, pid, p) ==
    LET k == Cardinality({i \in 1..Len(sorted) : p[sorted[i]].rating > p[pid].rating})
    IN SubSeq(sorted, 1, k) \o <<pid>> \o SubSeq(sorted, k + 1, Len(sorted))

\* sorted(..., key=rating, reverse=True) is stable: a player goes behind
\* every player already placed whose rating is at least as high
InsertSorted(sorted, pid, p) ==
    LET k == Cardinality({i \in 1..Len(sorted) : p[sorted[i]].rating >= p[pid].rating})
    IN SubSeq(sorted, 1, k) \o <<pid>> \o SubSeq(sorted, k + 1, Len(sorted))

RECURSIVE SortedPlayers(_, _, _)
\* player_repository.py:30
SortedPlayers(order, p, sorted) ==
    IF order = <<>> THEN sorted
    ELSE SortedPlayers(Tail(order), p, InsertSorted(sorted, Head(order), p))

IndexOf(s, x) == CHOOSE i \in 1..Len(s) : s[i] = x

\* player_repository.py:29-45: the rows handed to upsert("ranking", data)
RankingRows(pls, names) ==
    LET sorted == SortedPlayers(pls.order, pls.p, <<>>)
    IN [order |-> sorted,
        row |-> [pid \in Range(sorted) |->
                   [rating |-> pls.p[pid].rating,
                    rd |-> pls.p[pid].rd,
                    vol |-> pls.p[pid].vol,
                    appearances |-> pls.p[pid].appearances,
                    ranking |-> IndexOf(sorted, pid),
                    name |-> IF pid \in DOMAIN names THEN names[pid] ELSE 0]]]

\* upsert on the primary key: a stored row is replaced in place, a new row
\* is added behind the stored ones
Upsert(table, data) ==
    [order |-> table.order \o SelectSeq(data.order, LAMBDA pid : pid \notin DOMAIN table.row),
     row |-> data.row @@ table.row]

-----------------------------------------------------------------------------
(* RatingService.apply_matches *)

\* one result of a player's list and, for the observer, whose values it holds
Result(opponent, id, score) ==
    [r |-> opponent.rating, rd |-> opponent.rd, score |-> score, opp |-> id]

RECURSIVE BuildResultsKnownSide(_, _, _)
\* a match with one id outside the map still counts for the player inside
\* it, against a default opponent
BuildResultsKnownSide(pl, matches, results) ==
    IF matches = <<>> THEN results
    ELSE LET m == Head(matches)
             unrated == [rating |-> DefaultRating, rd |-> DefaultRd]
             opp(id) == IF id \in DOMAIN pl THEN pl[id] ELSE unrated
             r1 == IF m.winner \in DOMAIN pl
                   THEN [results EXCEPT ![m.winner] =
                            Append(@, Result(opp(m.loser), m.loser, 1))]
                   ELSE results
             r2 == IF m.loser \in DOMAIN pl
                   THEN [r1 EXCEPT ![m.loser] =
                            Append(@, Result(opp(m.winner), m.winner, 0))]
                   ELSE r1
         IN BuildResultsKnownSide(pl, Tail(matches), r2)

RECURSIVE BuildResultsWinnerOnly(_, _, _)
\* only the winner of a match gets a result
BuildResultsWinnerOnly(pl, matches, results) ==
    IF matches = <<>> THEN results
    ELSE LET m == Head(matches)
         IN IF m.winner \notin DOMAIN pl \/ m.loser \notin DOMAIN pl
            THEN BuildResultsWinnerOnly(pl, Tail(matches), results)
            ELSE BuildResultsWinnerOnly(pl, Tail(matches),
                    [results EXCEPT ![m.winner] =
                        Append(@, Result(pl[m.loser], m.loser, 1))])

RECURSIVE BuildResults(_, _, _)
\* rating_service.py:9-16
BuildResults(pl, matches, results) ==
    IF matches = <<>> THEN results
    ELSE LET m == Head(matches)
         IN IF m.winner \notin DOMAIN pl \/ m.loser \notin DOMAIN pl
            THEN BuildResults(pl, Tail(matches), results)
            ELSE LET r1 == [results EXCEPT ![m.winner] =
                                Append(@, Result(pl[m.loser], m.loser, 1))]
                     r2 == [r1 EXCEPT ![m.loser] =
                                Append(@, Result(pl[m.winner], m.winner, 0))]
                 IN BuildResults(pl, Tail(matches), r2)

RECURSIVE RatingDelta(_, _)
RatingDelta(own, games) ==
    IF games = <<>> THEN 0
    ELSE LET g == Head(games)
             d == IF g.score = 1
                  THEN 8 + (IF g.r > own THEN 4 ELSE 0)
                  ELSE 0 - (8 + (IF g.r < own THEN 4 ELSE 0))
         IN d + RatingDelta(own, Tail(games))

\* glicko2's Player.update_player(r_list, rd_list, outcome), called at
\* rating_service.py:23.  The library is not part of the repository: what is
\* kept of it is that it reads the three lists and replaces rating and rd.
update_player(player, games) ==
    [player EXCEPT !.rating = @ + RatingDelta(player.rating, games),
                   !.rd = Max(30, @ - 10 * Len(games))]

RECURSIVE UpdateAllPlayers(_, _, _, _)
\* update_player is called for every player, also with empty lists
UpdateAllPlayers(order, results, pl, calls) ==
    IF order = <<>> THEN [p |-> pl, calls |-> calls]
    ELSE LET pid == Head(order)
             games == results[pid]
         IN UpdateAllPlayers(Tail(order), results,
                             [pl EXCEPT ![pid] = update_player(@, games)],
                             Append(calls, [player |-> pid, games |-> games]))

RECURSIVE UpdateAll(_, _, _, _)
\* rating_service.py:18-23, in the iteration order of the dict
UpdateAll(order, results, pl, calls) ==
    IF order = <<>> THEN [p |-> pl, calls |-> calls]
    ELSE LET pid == Head(order)
             games == results[pid]
         IN IF games # <<>>
            THEN UpdateAll(Tail(order), results,
                           [pl EXCEPT ![pid] = update_player(@, games)],
                           Append(calls, [player |-> pid, games |-> games]))
            ELSE UpdateAll(Tail(order), results, pl, calls)

RECURSIVE UpdateAllLazily(_, _, _, _)
UpdateAllLazily(order, matches, pl, calls) ==
    IF order = <<>> THEN [p |-> pl, calls |-> calls]
    ELSE LET pid == Head(order)
             games == BuildResults(pl, matches, [q \in DOMAIN pl |-> <<>>])[pid]
         IN IF games # <<>>
            THEN UpdateAllLazily(Tail(order), matches,
                                 [pl EXCEPT ![pid] = update_player(@, games)],
                                 Append(calls, [player |-> pid, games |-> games]))
            ELSE UpdateAllLazily(Tail(order), matches, pl, calls)

\* a one-pass variant: each player's list is built when the player is updated
apply_matches_one_pass(pls, matches) ==
    LET u == UpdateAllLazily(pls.order, matches, pls.p, <<>>)
    IN [players |-> [order |-> pls.order, p |-> u.p], calls |-> u.calls]

\* rating_service.py:8-23
apply_matches(pls, matches) ==
    LET results == BuildResults(pls.p, matches, [pid \in DOMAIN pls.p |-> <<>>])
        u == UpdateAll(pls.order, results, pls.p, <<>>)
    IN [players |-> [order |-> pls.order, p |-> u.p], calls |-> u.calls]

-----------------------------------------------------------------------------
(* EventProcessor *)

\* tournament_processor.py:33-34
NewPlayer ==
    [rating |-> DefaultRating, rd |-> DefaultRd, vol |-> DefaultVol, appearances |-> 1]

KeepAppearances(player) == player

\* tournament_processor.py:37-38
BumpAppearances(player) == [player EXCEPT !.appearances = @ + 1]

\* tournament_processor.py:28-40, one entrant
MapEntrant(en, st) ==
    LET pid == en.player
        known == pid \in DOMAIN st.players.p
    IN [players |->
            IF known
            THEN [st.players EXCEPT !.p[pid] = BumpAppearances(@)]
            ELSE [order |-> Append(st.players.order, pid),
                  p |-> (pid :> NewPlayer) @@ st.players.p],
        name_map |-> IF known THEN st.name_map ELSE (pid :> en.gamerTag) @@ st.name_map,
        entrant_to_player |-> (en.id :> pid) @@ st.entrant_to_player,
        entrant_ids |-> Append(st.entrant_ids, en.id)]

RECURSIVE MapEntrants(_, _)
\* tournament_processor.py:27-40
MapEntrants(entrants, st) ==
    IF entrants = <<>> THEN st
    ELSE MapEntrants(Tail(entrants), MapEntrant(Head(entrants), st))

\* paginatedSets of one entrant: the sets of the event the entrant has a slot in
SetsOfEntrant(e) ==
    SelectSeq(payload.sets, LAMBDA s : s.slots[1] = e \/ s.slots[2] = e)

\* sets['data'] of the EntrantsWithSets request: alias E(i-1) -> nodes
SetsResponse(batch) == [i \in 1..Len(batch) |-> SetsOfEntrant(batch[i])]

Reverse(s) == [i \in 1..Len(s) |-> s[Len(s) + 1 - i]]

NeverSeen(set_id, seen) == FALSE

\* tournament_processor.py:86
AlreadySeen(set_id, seen) == set_id \in seen

\* a match (winner, loser); `set` is the observer's note of the set it came from
MatchOf(winner, loser, set_id) == [winner |-> winner, loser |-> loser, set |-> set_id]

\* the seen-set registry is written only for a set that becomes a match
ConvertSetMappedOnly(s, e2p, acc) ==
    IF AlreadySeen(s.id, acc.seen) THEN acc
    ELSE LET e1 == s.slots[1]
             e2 == s.slots[2]
         IN IF e1 \notin DOMAIN e2p \/ e2 \notin DOMAIN e2p
            THEN acc
            ELSE IF s.winnerId = e1
            THEN [seen |-> acc.seen \cup {s.id},
                  matches |-> Append(acc.matches, MatchOf(e2p[e1], e2p[e2], s.id))]
            ELSE IF s.winnerId = e2
            THEN [seen |-> acc.seen \cup {s.id},
                  matches |-> Append(acc.matches, MatchOf(e2p[e2], e2p[e1], s.id))]
            ELSE acc

\* a winner id other than the first slot's is taken for the second slot
ConvertSetElseSecond(s, e2p, acc) ==
    IF AlreadySeen(s.id, acc.seen) THEN acc
    ELSE LET seen2 == acc.seen \cup {s.id}
             e1 == s.slots[1]
             e2 == s.slots[2]
         IN IF e1 \notin DOMAIN e2p \/ e2 \notin DOMAIN e2p
            THEN [acc EXCEPT !.seen = seen2]
            ELSE IF s.winnerId = e1
            THEN [seen |-> seen2,
                  matches |-> Append(acc.matches, MatchOf(e2p[e1], e2p[e2], s.id))]
            ELSE [seen |-> seen2,
                  matches |-> Append(acc.matches, MatchOf(e2p[e2], e2p[e1], s.id))]

\* tournament_processor.py:85-99, one set
ConvertSet(s, e2p, acc) ==
    IF AlreadySeen(s.id, acc.seen) THEN acc
    ELSE LET seen2 == acc.seen \cup {s.id}
             e1 == s.slots[1]
             e2 == s.slots[2]
         IN IF e1 \notin DOMAIN e2p \/ e2 \notin DOMAIN e2p
            THEN [acc EXCEPT !.seen = seen2]
            ELSE IF s.winnerId = e1
            THEN [seen |-> seen2,
                  matches |-> Append(acc.matches, MatchOf(e2p[e1], e2p[e2], s.id))]
            ELSE IF s.winnerId = e2
            THEN [seen |-> seen2,
                  matches |-> Append(acc.matches, MatchOf(e2p[e2], e2p[e1], s.id))]
            ELSE [acc EXCEPT !.seen = seen2]

RECURSIVE ConvertSets(_, _, _)
\* tournament_processor.py:84-99
ConvertSets(sets, e2p, acc) ==
    IF sets = <<>> THEN acc
    ELSE ConvertSets(Tail(sets), e2p, ConvertSet(Head(sets), e2p, acc))

RECURSIVE ConvertAliases(_, _, _)
\* tournament_processor.py:81-83
ConvertAliases(response, e2p, acc) ==
    IF response = <<>> THEN acc
    ELSE ConvertAliases(Tail(response), e2p,
                        ConvertSets(Reverse(Head(response)), e2p, acc))

\* tournament_processor.py:56-100: [seen: seen_sets afterwards, matches: the result]
fetch_matches_for_batch(batch, e2p, seen) ==
    ConvertAliases(SetsResponse(batch), e2p, [seen |-> seen, matches |-> <<>>])

\* history_repository.py:10-25, for the matches of one sub-batch
HistoryRows(matches) ==
    [i \in 1..Len(matches) |-> [winnerId |-> matches[i].winner, loserId |-> matches[i].loser]]

\* the observer's note of a call made by process_event: the sub-batch it
\* belongs to and the (winner, loser) pairs it was given
Op(op, k, rows) == [op |-> op, batch |-> k, rows |-> rows]

RecordOps(k, matches, history) ==
    IF history
    THEN [i \in 1..Len(matches) |-> Op("record", k, <<HistoryRows(matches)[i]>>)]
    ELSE <<>>

\* the ratings are updated before the matches are recorded
BatchOpsApplyFirst(k, matches, history) ==
    <<Op("apply_matches", k, HistoryRows(matches))>> \o RecordOps(k, matches, history)

\* tournament_processor.py:47-51: the calls of one iteration after the
\* matches were fetched, history_repo.record for each match (when a history
\* repository is configured), then rating_service.apply_matches
BatchOps(k, matches, history) ==
    RecordOps(k, matches, history) \o <<Op("apply_matches", k, HistoryRows(matches))>>

\* tournament_processor.py:53-54
SaveOps == <<Op("save_players", 0, <<>>), Op("save_names", 0, <<>>)>>

\* the sub-batch loop goes on while i < len(entrant_ids)
LoopPc(i, ids) == IF i < Len(ids) THEN "batch" ELSE "save"

\* the part of the state SpecEvent does not use
QueryPartIdle ==
    /\ rq_pc = "idle"
    /\ retries = 0
    /\ max_retries = 0
    /\ sleep_time = 0
    /\ rq_last = "none"
    /\ rq_err = "none"
    /\ rq_obs = [total |-> 0, ok |-> 0, rate |-> 0, unavailable |-> 0,
                 status |-> 0, timeout |-> 0, connection |-> 0, body |-> "none"]

InitEvent ==
    /\ PagesPartIdle
    /\ ServicePartIdle
    /\ QueryPartIdle
    /\ TournamentPartIdle
    /\ MainPartIdle
    /\ \E order \in KnownOrders :
          /\ db_ranking = StoredRanking(order)
          /\ db_names = [pid \in Range(order) |-> pid]
    /\ db_history = <<>>
    /\ payload \in Payloads
    /\ save_history \in BOOLEAN
    /\ ev_pc = "idle"
    /\ players = [order |-> <<>>, p |-> EmptyFn]
    /\ name_map = EmptyFn
    /\ entrant_to_player = EmptyFn
    /\ entrant_ids = <<>>
    /\ seen_sets = {}
    /\ batch_i = 0
    /\ events_started = 0
    /\ obs = NoObs

\* tournament_processor.py:19-20: process_event for an event without videogame id
ProcessEventNoGame ==
    /\ ev_pc = "idle"
    /\ events_started < MaxEvents
    /\ events_started' = events_started + 1
    /\ UNCHANGED <<payload, save_history, ev_pc, players, name_map, entrant_to_player,
                   entrant_ids, seen_sets, batch_i, obs>>
    /\ UNCHANGED <<tnVars, mainVars, rqVars, dbVars, pageVars, sbVars>>

\* tournament_processor.py:21-42: process_event up to the sub-batch loop
StartEvent ==
    /\ ev_pc = "idle"
    /\ events_started < MaxEvents
    /\ \E loaded \in {load_players} :
       \E st \in {MapEntrants(payload.entrants,
                              [players |-> loaded, name_map |-> load_names,
                               entrant_to_player |-> EmptyFn, entrant_ids |-> <<>>])} :
          /\ players' = st.players
          /\ name_map' = st.name_map
          /\ entrant_to_player' = st.entrant_to_player
          /\ entrant_ids' = st.entrant_ids
          /\ ev_pc' = LoopPc(0, st.entrant_ids)
          /\ obs' = [obs EXCEPT !.loaded = loaded.p, !.at_start = st.players.p,
                                !.call_start = EmptyFn, !.call_updates = <<>>,
                                !.ev_matches = <<>>, !.ev_updates = <<>>,
                                !.answered = {}, !.errors = 0,
                                !.persisted = FALSE,
                                !.batches = <<>>, !.applies = 0,
                                !.null_alias = 0, !.call_matches = <<>>,
                                !.ops = <<>>]
    /\ seen_sets' = {}
    /\ batch_i' = 0
    /\ events_started' = events_started + 1
    /\ UNCHANGED <<payload, save_history>>
    /\ UNCHANGED <<tnVars, mainVars, rqVars, dbVars, pageVars, sbVars>>

\* the slice is one id longer than the step of the loop
BatchAtOneMore(i) == SubSeq(entrant_ids, i + 1, Min(i + max_batch_size + 1, Len(entrant_ids)))

\* the observer's note of a set request: the ids bound to aliases and the
\* apply_matches calls of the event made before it
Requested(batch) == Append(obs.batches, [ids |-> batch, applied_before |-> obs.applies])

\* tournament_processor.py:44: entrant_ids[i:i + self.max_batch_size]
BatchAt(i) == SubSeq(entrant_ids, i + 1, Min(i + max_batch_size, Len(entrant_ids)))

\* tournament_processor.py:43-51: one iteration of the sub-batch loop, the
\* set request answered with data
ProcessBatch ==
    /\ ev_pc = "batch"
    /\ \E batch \in {BatchAt(batch_i)} :
       \E f \in {fetch_matches_for_batch(batch, entrant_to_player, seen_sets)} :
       \E a \in {apply_matches(players, f.matches)} :
          /\ seen_sets' = f.seen
          /\ db_history' = IF save_history
                           THEN db_history \o HistoryRows(f.matches)
                           ELSE db_history
          /\ players' = a.players
          /\ obs' = [obs EXCEPT !.call_start = players.p,
                                !.call_updates = a.calls,
                                !.call_matches = f.matches,
                                !.ev_matches = @ \o f.matches,
                                !.ev_updates = @ \o a.calls,
                                !.run_matches = @ \o f.matches,
                                !.answered = @ \cup Range(batch),
                                !.batches = Requested(batch),
                                !.applies = @ + 1,
                                !.ops = @ \o BatchOps(obs.applies + 1, f.matches,
                                                      save_history)]
    /\ batch_i' = batch_i + max_batch_size
    /\ ev_pc' = LoopPc(batch_i + max_batch_size, entrant_ids)
    /\ UNCHANGED <<payload, save_history, name_map, entrant_to_player, entrant_ids,
                   events_started>>
    /\ UNCHANGED <<tnVars, mainVars, rqVars, db_ranking, db_names, pageVars, sbVars>>

\* tournament_processor.py:43-51 with 76-79: one iteration of the sub-batch
\* loop, the set request answered with an "errors" payload.
\* _fetch_matches_for_batch prints and returns [], seen_sets is untouched,
\* nothing is recorded, apply_matches([]) updates nobody, the loop goes on.
ProcessBatchError ==
    /\ ev_pc = "batch"
    /\ obs.run_errors < MaxErrorPayloads
    /\ \E a \in {apply_matches(players, <<>>)} :
          /\ players' = a.players
          /\ obs' = [obs EXCEPT !.call_start = players.p,
                                !.call_updates = a.calls,
                                !.call_matches = <<>>,
                                !.ev_updates = @ \o a.calls,
                                !.errors = @ + 1,
                                !.run_errors = @ + 1,
                                !.batches = Requested(BatchAt(batch_i)),
                                !.applies = @ + 1,
                                !.ops = @ \o BatchOps(obs.applies + 1, <<>>, save_history)]
    /\ batch_i' = batch_i + max_batch_size
    /\ ev_pc' = LoopPc(batch_i + max_batch_size, entrant_ids)
    /\ UNCHANGED <<payload, save_history, name_map, entrant_to_player, entrant_ids,
                   seen_sets, events_started>>
    /\ UNCHANGED <<tnVars, mainVars, rqVars, dbVars, pageVars, sbVars>>

\* an answer in which the entity of one alias is null (a GraphQL answer
\* holds every alias of the request; an entity that cannot be resolved is
\* null): the first and the last alias of the request are tried
NullAliases(batch) == {1, Len(batch)}

\* the aliases converted before the loop reaches alias j
DemuxPrefix(batch, j) == SubSeq(SetsResponse(batch), 1, j - 1)

\* tournament_processor.py:43-51 with 80-82: one iteration of the sub-batch
\* loop, the set request answered with data in which one alias is null.
\* sets['data'][f"E{i}"]['paginatedSets'] subscripts None: TypeError, which
\* nothing in process_event catches.
ProcessBatchNullAlias ==
    /\ ev_pc = "batch"
    /\ obs.run_errors < MaxErrorPayloads
    /\ \E batch \in {BatchAt(batch_i)} :
       \E j \in NullAliases(batch) :
       \E f \in {ConvertAliases(DemuxPrefix(batch, j), entrant_to_player,
                                [seen |-> seen_sets, matches |-> <<>>])} :
          /\ seen_sets' = f.seen
          /\ obs' = [obs EXCEPT !.run_errors = @ + 1,
                                !.batches = Requested(batch),
                                !.null_alias = j]
    /\ ev_pc' = "raised"
    /\ UNCHANGED <<payload, save_history, players, name_map, entrant_to_player,
                   entrant_ids, batch_i, events_started>>
    /\ UNCHANGED <<tnVars, mainVars, rqVars, dbVars, pageVars, sbVars>>

\* tournament_processor.py:53-54
FinishEvent ==
    /\ ev_pc = "save"
    /\ \E rows \in {RankingRows(players, name_map)} :
          /\ db_ranking' = Upsert(db_ranking, rows)
          /\ obs' = [obs EXCEPT !.persisted = TRUE,
                                !.ops = @ \o SaveOps,
                                !.ingested = @ + 1,
                                !.first_saved = IF obs.ingested = 0 THEN rows.row ELSE @]
    /\ db_names' = name_map @@ db_names
    /\ ev_pc' = "idle"
    /\ UNCHANGED <<payload, save_history, players, name_map, entrant_to_player,
                   entrant_ids, seen_sets, batch_i, events_started>>
    /\ UNCHANGED <<tnVars, mainVars, rqVars, db_history, pageVars, sbVars>>

NextEvent ==
    \/ ProcessEventNoGame
    \/ StartEvent
    \/ ProcessBatch
    \/ ProcessBatchError
    \/ ProcessBatchNullAlias
    \/ FinishEvent

SpecEvent == InitEvent /\ [][NextEvent]_vars

-----------------------------------------------------------------------------
(* Claims about process_event and apply_matches *)

NoDuplicateSet(ms) == \A i, j \in 1..Len(ms) : ms[i].set = ms[j].set => i = j

SetIdsOf(ms) == {ms[i].set : i \in 1..Len(ms)}

\* C1: within one process_event call every set id contributes at most one
\* match to the matches handed to apply_matches, over all sub-batches and
\* aliases, and history receives exactly the matches that were extracted.
C1_SetConvertedOncePerEvent ==
    /\ NoDuplicateSet(obs.ev_matches)
    /\ save_history => db_history = HistoryRows(obs.run_matches)

\* an event of two sub-batches whose sets were each returned under two
\* aliases: one set inside the first sub-batch, one across the boundary
C1_Witness ==
    /\ ev_pc = "save"
    /\ Len(entrant_ids) > max_batch_size
    /\ save_history
    /\ \E s, t \in Range(payload.sets) :
          /\ s.slots = <<1, 2>>
          /\ t.slots = <<1, max_batch_size + 1>>
          /\ {s.id, t.id} \subseteq SetIdsOf(obs.ev_matches)

\* C2: within one run no set id is converted into a match a second time,
\* also when the same event payload is processed again.
C2_SetConvertedOncePerRun == NoDuplicateSet(obs.run_matches)

TuplesFrom(calls, snapshot) ==
    \A k \in 1..Len(calls) : \A g \in 1..Len(calls[k].games) :
        LET t == calls[k].games[g]
        IN /\ t.opp \in DOMAIN snapshot
           /\ t.r = snapshot[t.opp].rating
           /\ t.rd = snapshot[t.opp].rd

\* C3: every tuple given to update_player in one apply_matches call holds
\* the opponent's rating and deviation as they were when the call began.
C3_TuplesFromCallStart == TuplesFrom(obs.call_updates, obs.call_start)

\* a player is updated with a tuple of an opponent whom the same call has
\* updated before, and whose values are no longer those of the tuple
C3_Witness ==
    \E k1, k2 \in 1..Len(obs.call_updates) :
        /\ k1 < k2
        /\ \E g \in 1..Len(obs.call_updates[k2].games) :
              LET t == obs.call_updates[k2].games[g]
              IN /\ t.opp = obs.call_updates[k1].player
                 /\ t.opp # obs.call_updates[k2].player
                 /\ players.p[t.opp].rd # t.rd

Participations(ms, pid) ==
    Cardinality({i \in 1..Len(ms) : ms[i].winner = pid})
        + Cardinality({i \in 1..Len(ms) : ms[i].loser = pid})

CallsFor(calls, pid) == {k \in 1..Len(calls) : calls[k].player = pid}

\* C4: when the sub-batch loop of an event has ended, update_player was
\* invoked exactly once for each player with a match in the event, with one
\* result per match of the event the player took part in.
C4_OneUpdatePerPlayerAndEvent ==
    ev_pc = "save" =>
        \A pid \in DOMAIN players.p :
            Participations(obs.ev_matches, pid) > 0 =>
                \E k \in 1..Len(obs.ev_updates) :
                    /\ CallsFor(obs.ev_updates, pid) = {k}
                    /\ Len(obs.ev_updates[k].games) = Participations(obs.ev_matches, pid)

\* C5: every tuple given to update_player during an event holds the
\* opponent's values as they stood before any update of the event.
C5_TuplesFromEventStart == TuplesFrom(obs.ev_updates, obs.at_start)

EntrantsOf(pid) ==
    Cardinality({i \in 1..Len(payload.entrants) : payload.entrants[i].player = pid})

\* C6: after the mapping step a player behind k entrants has the stored
\* appearances plus k when the ranking table had a row for the player, and
\* is a default Player with appearances k when it had none.
C6_AppearancesAfterMapping ==
    ev_pc # "idle" =>
        \A pid \in DOMAIN players.p :
            \A k \in {EntrantsOf(pid)} :
                k >= 1 =>
                    IF pid \in DOMAIN obs.loaded
                    THEN players.p[pid].appearances = obs.loaded[pid].appearances + k
                    ELSE /\ players.p[pid].appearances = k
                         /\ obs.at_start[pid] = [NewPlayer EXCEPT !.appearances = k]

C6_Witness ==
    /\ ev_pc = "batch"
    /\ batch_i = 0
    /\ \E pid \in DOMAIN obs.loaded :
          /\ EntrantsOf(pid) = 2
          /\ players.p[pid].appearances = obs.loaded[pid].appearances + 2
    /\ \E pid \in DOMAIN players.p \ DOMAIN obs.loaded :
          /\ EntrantsOf(pid) = 1
          /\ players.p[pid] = NewPlayer

\* C19: when the set request of a sub-batch is answered with an "errors"
\* payload the event is not completed and persisted: no event in which such
\* an answer arrived reaches save_players / save_names.
C19_SetErrorStopsEvent == ~(obs.errors > 0 /\ obs.persisted)

UnmappedSlot(s) == \E k \in 1..2 : s.slots[k] \notin DOMAIN entrant_to_player

\* the set was part of an answered response of the current event
Returned(s) == \E k \in 1..2 : s.slots[k] \in obs.answered

TupleCount(calls) == IF calls = <<>> THEN 0
                     ELSE LET n[k \in 1..Len(calls)] ==
                                  Len(calls[k].games) + (IF k = 1 THEN 0 ELSE n[k - 1])
                          IN n[Len(calls)]

\* C20: a set with a slot whose entrant id is not in the entrant-to-player
\* map yields no match (every result tuple of the event stems from a match,
\* two per match), and once returned it is in the seen-set registry; the
\* conversion goes on without an error.
C20_UnmappedSlotSkipped ==
    ev_pc \in {"batch", "save"} =>
        /\ \A s \in Range(payload.sets) :
              UnmappedSlot(s) =>
                  /\ s.id \notin SetIdsOf(obs.ev_matches)
                  /\ Returned(s) => s.id \in seen_sets
        /\ TupleCount(obs.ev_updates) = 2 * Len(obs.ev_matches)

\* a returned set with one mapped and one unmapped slot, next to a set that
\* did become a match
C20_Witness ==
    /\ ev_pc = "save"
    /\ \E s, t \in Range(payload.sets) :
          /\ s.slots[1] \in DOMAIN entrant_to_player
          /\ s.slots[2] \notin DOMAIN entrant_to_player
          /\ s.winnerId = s.slots[1]
          /\ Returned(s)
          /\ s.id \in seen_sets
          /\ t.id \in SetIdsOf(obs.ev_matches)

-----------------------------------------------------------------------------
(* TournamentProcessor.process_tournament *)

\* events of one tournament
MaxTournamentEvents == 2
\* videogame ids are 1..MaxGames
MaxGames == 2

\* def process_tournament(self, event_slug: str, saved_games: bool = False)
process_tournament_signature ==
    [positional |-> <<"event_slug", "saved_games">>,
     required |-> {"event_slug"},
     keyword_only |-> {}]

\* def update_with_discriminator(supabase: Client, *, batch_size=250, ...)
update_with_discriminator_signature ==
    [positional |-> <<"supabase">>,
     required |-> {"supabase"},
     keyword_only |-> {"batch_size", "sleep_seconds", "log_every", "dry_run",
                       "only_missing", "debug_missing"}]

\* seed_tournaments.py:220
\* process_tournament(slug, saved_games=..., update_discriminator=False)
CallFromMain == [positional |-> 1, keywords |-> {"saved_games", "update_discriminator"}]

\* update_with_discriminator()
WithoutArguments == [positional |-> 0, keywords |-> {}]

\* every call is taken to fit the function it names
BindsAlways(call, sig) == TRUE

\* Python binds the arguments of a call to the parameters of the function;
\* a call that does not fit raises TypeError before the body runs
Binds(call, sig) ==
    LET byPosition == {sig.positional[k] :
                          k \in 1..Min(call.positional, Len(sig.positional))}
    IN /\ call.positional <= Len(sig.positional)
       /\ call.keywords \subseteq Range(sig.positional) \cup sig.keyword_only
       /\ call.keywords \cap byPosition = {}
       /\ sig.required \subseteq byPosition \cup call.keywords

\* the ways a caller writes the call: process_tournament(slug),
\* process_tournament(slug, saved_games=b), and the call of main
CallShapes ==
    {[positional |-> 1, keywords |-> {}],
     [positional |-> 1, keywords |-> {"saved_games"}],
     CallFromMain}

Calls ==
    {[args |-> c, saved_games |-> b] : c \in CallShapes, b \in BOOLEAN}

\* events of a large tournament beyond max_batch_size
MaxOverflowEvents == 1

\* the events of the tournament: event i belongs to a videogame.  A large
\* tournament has more events than max_batch_size, all of videogame 1.
TournamentEvents ==
    UNION {[1..n -> 1..MaxGames] : n \in 0..MaxTournamentEvents}
    \cup {[i \in 1..(max_batch_size + n) |-> 1] : n \in 1..MaxOverflowEvents}

EventNodes(games) == [i \in 1..Len(games) |-> [id |-> i, videogame |-> games[i]]]

InitTournament ==
    /\ PagesPartIdle
    /\ ServicePartIdle
    /\ QueryPartIdle
    /\ EventPartIdle
    /\ MainPartIdle
    /\ \E c \in Calls :
          /\ "saved_games" \notin c.args.keywords => ~c.saved_games
          /\ tn_call = c
    /\ \E games \in TournamentEvents : tn_upstream = EventNodes(games)
    /\ db_videogame_mapping \in SUBSET (1..MaxGames)
    /\ tn = [pc |-> "idle", events |-> <<>>, videogame_map |-> {}, i |-> 0]
    /\ tn_obs = [errors |-> FALSE, writes |-> <<>>, aliases |-> 0, stored |-> {}]

TnLoopPc(i, events) == IF i < Len(events) THEN "event" ELSE "upsert"

\* the call itself: TypeError when the arguments do not fit
CallProcessTournament ==
    /\ tn.pc = "idle"
    /\ tn' = [tn EXCEPT !.pc = IF Binds(tn_call.args, process_tournament_signature)
                               THEN "results" ELSE "raised"]
    /\ UNCHANGED <<tn_call, tn_upstream, db_videogame_mapping, tn_obs>>
    /\ UNCHANGED <<rqVars, dbVars, evVars, mainVars, pageVars, sbVars>>

\* tournament_processor.py:112-117, the results request answered with data
ResultsData ==
    /\ tn.pc = "results"
    /\ tn' = [tn EXCEPT
                !.pc = "entrants",
                !.videogame_map = db_videogame_mapping,
                !.events = IF tn_call.saved_games
                           THEN SelectSeq(tn_upstream,
                                          LAMBDA e : e.videogame \in db_videogame_mapping)
                           ELSE tn_upstream]
    /\ tn_obs' = [tn_obs EXCEPT !.stored = db_videogame_mapping]
    /\ UNCHANGED <<tn_call, tn_upstream, db_videogame_mapping>>
    /\ UNCHANGED <<rqVars, dbVars, evVars, mainVars, pageVars, sbVars>>

\* tournament_processor.py:112, the results request answered with "errors"
\* and no data: the subscript ['data'] raises
ResultsErrors ==
    /\ tn.pc = "results"
    /\ tn' = [tn EXCEPT !.pc = "raised"]
    /\ UNCHANGED <<tn_call, tn_upstream, db_videogame_mapping, tn_obs>>
    /\ UNCHANGED <<rqVars, dbVars, evVars, mainVars, pageVars, sbVars>>

\* tournament_processor.py:119-138: one $id{i} and one alias E{i} for every
\* event of the list
EventAliases(events) == Len(events)

\* tournament_processor.py:138-144, the events/entrants request answered
\* with data
EntrantsData ==
    /\ tn.pc = "entrants"
    /\ tn' = [tn EXCEPT !.pc = TnLoopPc(0, tn.events), !.i = 0]
    /\ tn_obs' = [tn_obs EXCEPT !.aliases = EventAliases(tn.events)]
    /\ UNCHANGED <<tn_call, tn_upstream, db_videogame_mapping>>
    /\ UNCHANGED <<rqVars, dbVars, evVars, mainVars, pageVars, sbVars>>

\* tournament_processor.py:138-142, the events/entrants request answered
\* with an "errors" payload: two prints and a plain return
EntrantsErrors ==
    /\ tn.pc = "entrants"
    /\ tn' = [tn EXCEPT !.pc = "returned"]
    /\ tn_obs' = [tn_obs EXCEPT !.errors = TRUE, !.aliases = EventAliases(tn.events)]
    /\ UNCHANGED <<tn_call, tn_upstream, db_videogame_mapping>>
    /\ UNCHANGED <<rqVars, dbVars, evVars, mainVars, pageVars, sbVars>>

\* tournament_processor.py:53-54, the persistence calls that end process_event
\* (left: the events of the tournament not yet handed to process_event)
EventWrites(e, left) == << [call |-> "save_players", event |-> e.id, left |-> left],
                          [call |-> "save_names", event |-> e.id, left |-> left] >>

\* no videogame is ever added to the mapping
MapAfterEventNever(map, e, saved_games) == map

\* tournament_processor.py:155-156
MapAfterEvent(map, e, saved_games) ==
    IF ~saved_games THEN map \cup {e.videogame} ELSE map

\* tournament_processor.py:144-160, one iteration of the event loop
TournamentEvent ==
    /\ tn.pc = "event"
    /\ LET e == tn.events[tn.i + 1]
           map2 == MapAfterEvent(tn.videogame_map, e, tn_call.saved_games)
           skipped == tn_call.saved_games /\ e.videogame \notin tn.videogame_map
       IN /\ tn' = [tn EXCEPT !.videogame_map = map2,
                              !.i = @ + 1,
                              !.pc = TnLoopPc(tn.i + 1, tn.events)]
          /\ tn_obs' = IF skipped THEN tn_obs
                       ELSE [tn_obs EXCEPT !.writes = @ \o EventWrites(e, Len(tn.events) - (tn.i + 1))]
    /\ UNCHANGED <<tn_call, tn_upstream, db_videogame_mapping>>
    /\ UNCHANGED <<rqVars, dbVars, evVars, mainVars, pageVars, sbVars>>

\* tournament_processor.py:163-164: the mapping is upserted, then
\* update_with_discriminator() is called
TournamentFinish ==
    /\ tn.pc = "upsert"
    /\ db_videogame_mapping' = db_videogame_mapping \cup tn.videogame_map
    /\ tn_obs' = [tn_obs EXCEPT
                    !.writes = Append(@, [call |-> "upsert_videogame_mapping", event |-> 0,
                                          left |-> 0])]
    /\ tn' = [tn EXCEPT
                !.pc = IF Binds(WithoutArguments, update_with_discriminator_signature)
                       THEN "returned" ELSE "raised"]
    /\ UNCHANGED <<tn_call, tn_upstream>>
    /\ UNCHANGED <<rqVars, dbVars, evVars, mainVars, pageVars, sbVars>>

NextTournament ==
    \/ CallProcessTournament
    \/ ResultsData
    \/ ResultsErrors
    \/ EntrantsData
    \/ EntrantsErrors
    \/ TournamentEvent
    \/ TournamentFinish

SpecTournament == InitTournament /\ [][NextTournament]_vars

-----------------------------------------------------------------------------
(* Claims about process_tournament *)

\* C18: when the events/entrants request is answered with an "errors"
\* payload, process_tournament signals a failure to its caller: it does not
\* return normally, which a caller counts as a processed tournament.
C18_EntrantsErrorSignalled == tn_obs.errors => tn.pc # "returned"

RatingWrites == {k \in 1..Len(tn_obs.writes) : tn_obs.writes[k].call = "save_players"}

\* C21: the ratings of a tournament are written once, after all its events
\* have been processed: no rating or name write happens while a later event
\* of the tournament is unprocessed.
C21_RatingsWrittenOnceAtEnd ==
    /\ Cardinality(RatingWrites) <= 1
    /\ \A k \in 1..Len(tn_obs.writes) :
          tn_obs.writes[k].call \in {"save_players", "save_names"}
              => tn_obs.writes[k].left = 0

\* the mapping was upserted: process_tournament is over but for line 164
Upserted == \E k \in 1..Len(tn_obs.writes) : tn_obs.writes[k].call = "upsert_videogame_mapping"

\* the events handed to process_event, in their order
ProcessedEvents ==
    Concat([k \in 1..Len(tn_obs.writes) |->
               IF tn_obs.writes[k].call = "save_players"
               THEN <<tn_obs.writes[k].event>> ELSE <<>>])

IdsOf(events) == [k \in 1..Len(events) |-> events[k].id]

\* C34: in saved-games mode only the events whose videogame id is in the
\* stored videogame mapping are processed and no id is added to the
\* mapping; with saved-games off every event is processed and the upserted
\* mapping is the stored one plus the videogame ids of the events.
C34_SavedGamesIsAllowList ==
    /\ tn_call.saved_games /\ tn.pc \in {"entrants", "event", "upsert"}
          => tn.videogame_map = tn_obs.stored
    /\ Upserted =>
          IF tn_call.saved_games
          THEN /\ ProcessedEvents =
                     IdsOf(SelectSeq(tn_upstream, LAMBDA e : e.videogame \in tn_obs.stored))
               /\ db_videogame_mapping = tn_obs.stored
          ELSE /\ ProcessedEvents = IdsOf(tn_upstream)
               /\ db_videogame_mapping =
                     tn_obs.stored \cup {tn_upstream[k].videogame : k \in 1..Len(tn_upstream)}

\* a saved-games run that processed one event and left out another
C34_Witness ==
    /\ Upserted
    /\ tn_call.saved_games
    /\ ProcessedEvents # <<>>
    /\ Len(ProcessedEvents) < Len(tn_upstream)

\* C29: the events/entrants request of process_tournament binds at most
\* max_batch_size ids to aliases, whatever the number of events.
C29_EventAliasesWithinBatchWidth == tn_obs.aliases <= max_batch_size

-----------------------------------------------------------------------------
(* main of seed_tournaments.py: the controller of a run *)

\* tournament summaries of one run
MaxNodes == 2
\* timestamps are 1..MaxTime
MaxTime == 2
\* --max-errors is 0..MaxErrorsArg
MaxErrorsArg == 2
\* --max-tournaments is absent or 0..MaxTournamentsArg
MaxTournamentsArg == 1

\* a summary without slug: `not slug` holds
NoSlug == 0

\* isinstance(x, int)
IsInt(x) == x # None

OptionalTimes == {None} \cup (1..MaxTime)

\* a summary has a slug or none, and an endAt or none
NodeKinds ==
    {[slug |-> NoSlug, endAt |-> None]} \cup {[slug |-> 1, endAt |-> t] : t \in OptionalTimes}

\* nodes_iter; the slug of a summary is its place in the list
NodeLists ==
    {[i \in 1..Len(l) |-> IF l[i].slug = NoSlug THEN l[i] ELSE [l[i] EXCEPT !.slug = i]] :
        l \in UNION {[1..n -> NodeKinds] : n \in 0..MaxNodes}}

\* seed_tournaments.py:36-91, the options the controller reads
ArgsSpace ==
    [after_date : OptionalTimes,
     dry_run : BOOLEAN,
     continue_on_error : BOOLEAN,
     max_errors : 0..MaxErrorsArg,
     max_tournaments : {None} \cup (0..MaxTournamentsArg)]

\* last_updated_repository.py:12-19
get_timestamp == db_last_updated

\* last_updated_repository.py:21-25
set_timestamp(timestamp) == timestamp

\* `x or 0`
OrZero(x) == IF x = None THEN 0 ELSE x

InitMain ==
    /\ PagesPartIdle
    /\ ServicePartIdle
    /\ QueryPartIdle
    /\ EventPartIdle
    /\ TournamentPartIdle
    /\ args \in ArgsSpace
    /\ nodes \in NodeLists
    /\ db_last_updated \in OptionalTimes
    /\ run = [pc |-> "start", i |-> 0, after_date |-> 0, max_end_at |-> 0,
              processed_max_end_at |-> 0, processed |-> 0, failed |-> 0,
              failed_slugs |-> <<>>, seen |-> 0]
    /\ run_obs = [before |-> None, handed |-> <<>>, completed |-> <<>>,
                  upstream_failed |-> FALSE, stamps |-> <<>>]

\* the loop over nodes_iter goes on while a summary is left
MainLoopPc(i) == IF i < Len(nodes) THEN "loop" ELSE "end"

\* seed_tournaments.py:150-159
MainStart ==
    /\ run.pc = "start"
    /\ LET stored_after == OrZero(get_timestamp)
           after_date == IF args.after_date # None THEN args.after_date ELSE stored_after
       IN run' = [run EXCEPT !.pc = MainLoopPc(0),
                            !.after_date = after_date,
                            !.max_end_at = after_date,
                            !.processed_max_end_at = after_date]
    /\ run_obs' = [run_obs EXCEPT !.before = db_last_updated]
    /\ UNCHANGED <<args, nodes, db_last_updated>>
    /\ UNCHANGED <<rqVars, dbVars, evVars, tnVars, pageVars, sbVars>>

Node == nodes[run.i + 1]

\* seed_tournaments.py:204-205
NodeWithoutSlug ==
    /\ run.pc = "loop"
    /\ Node.slug = NoSlug
    /\ run' = [run EXCEPT !.i = @ + 1, !.pc = MainLoopPc(run.i + 1)]
    /\ UNCHANGED <<args, nodes, db_last_updated, run_obs>>
    /\ UNCHANGED <<rqVars, dbVars, evVars, tnVars, pageVars, sbVars>>

\* seed_tournaments.py:207
WithinLimit == args.max_tournaments = None \/ run.seen < args.max_tournaments

\* seed_tournaments.py:207-209
LimitReached ==
    /\ run.pc = "loop"
    /\ Node.slug # NoSlug
    /\ ~WithinLimit
    /\ run' = [run EXCEPT !.pc = "end"]
    /\ UNCHANGED <<args, nodes, db_last_updated, run_obs>>
    /\ UNCHANGED <<rqVars, dbVars, evVars, tnVars, pageVars, sbVars>>

\* max_end_at follows the latest summary, also when it ended earlier
ObservedLatest(r, end_at) ==
    [r EXCEPT !.seen = @ + 1,
              !.max_end_at = IF IsInt(end_at) THEN end_at ELSE @]

\* seed_tournaments.py:210-212
Observed(r, end_at) ==
    [r EXCEPT !.seen = @ + 1,
              !.max_end_at = IF IsInt(end_at) /\ end_at > @ THEN end_at ELSE @]

\* processing is attempted in a dry run too
NeverSkipsProcessing(a) == FALSE

\* seed_tournaments.py:216
SkipsProcessing(a) == a.dry_run

\* seed_tournaments.py:210-217
ObserveOnly ==
    /\ run.pc = "loop"
    /\ Node.slug # NoSlug
    /\ WithinLimit
    /\ SkipsProcessing(args)
    /\ run' = [Observed(run, Node.endAt) EXCEPT !.i = @ + 1, !.pc = MainLoopPc(run.i + 1)]
    /\ UNCHANGED <<args, nodes, db_last_updated, run_obs>>
    /\ UNCHANGED <<rqVars, dbVars, evVars, tnVars, pageVars, sbVars>>

\* how a call can end: a call that does not bind raises TypeError; one that
\* binds returns, or raises when a request or a write inside it fails
CallOutcomes(call, sig) ==
    IF Binds(call, sig) THEN {"returned", "raised"} ELSE {"raised"}

\* the exception is never passed on
NeverReraises(continue_on_error) == FALSE

\* seed_tournaments.py:230-231
Reraises(continue_on_error) == ~continue_on_error

\* the run stops one failure later
ExceededMaxErrors(failed, max_errors) == failed > Max(1, max_errors)

\* seed_tournaments.py:232
ReachedMaxErrors(failed, max_errors) == failed >= Max(1, max_errors)

\* seed_tournaments.py:221-223
Completed(r, end_at) ==
    [r EXCEPT !.processed = @ + 1,
              !.processed_max_end_at = IF IsInt(end_at) /\ end_at > @ THEN end_at ELSE @]

\* seed_tournaments.py:225-234: the exception is raised again ("raised"),
\* SystemExit is raised ("exit"), or the loop goes on
Failed(r, slug) ==
    [r EXCEPT !.failed = @ + 1,
              !.failed_slugs = Append(@, slug),
              !.pc = IF Reraises(args.continue_on_error) THEN "raised"
                     ELSE IF ReachedMaxErrors(r.failed + 1, args.max_errors) THEN "exit"
                     ELSE @]

\* seed_tournaments.py:210-234, a summary handed to process_tournament
ProcessNode ==
    /\ run.pc = "loop"
    /\ Node.slug # NoSlug
    /\ WithinLimit
    /\ ~SkipsProcessing(args)
    /\ \E out \in CallOutcomes(CallFromMain, process_tournament_signature) :
          LET r == [Observed(run, Node.endAt) EXCEPT !.i = @ + 1,
                                                    !.pc = MainLoopPc(run.i + 1)]
          IN IF out = "returned"
             THEN /\ run' = Completed(r, Node.endAt)
                  /\ run_obs' = [run_obs EXCEPT !.handed = Append(@, Node.slug),
                                                !.completed = Append(@, Node.slug)]
             ELSE /\ run' = Failed(r, Node.slug)
                  /\ run_obs' = [run_obs EXCEPT
                                    !.handed = Append(@, Node.slug),
                                    !.upstream_failed =
                                        @ \/ Binds(CallFromMain, process_tournament_signature)]
    /\ UNCHANGED <<args, nodes, db_last_updated>>
    /\ UNCHANGED <<rqVars, dbVars, evVars, tnVars, pageVars, sbVars>>

\* the watermark is written after every run that is not a dry run
EndOfRunAlwaysStamps(a, r) == IF a.dry_run THEN "return" ELSE "stamp"

\* seed_tournaments.py:236-245: what main does after the loop
EndOfRun(a, r) ==
    IF a.dry_run \/ r.processed = 0 THEN "return"
    ELSE IF Binds(WithoutArguments, update_with_discriminator_signature) THEN "stamp"
    ELSE "raise"

\* seed_tournaments.py:236-251
MainEnd ==
    /\ run.pc = "end"
    /\ \E end \in {EndOfRun(args, run)} :
          IF end = "return"
          THEN /\ run' = [run EXCEPT !.pc = "done"]
               /\ UNCHANGED <<db_last_updated, run_obs>>
          ELSE IF end = "stamp"
          THEN /\ db_last_updated' = set_timestamp(run.processed_max_end_at)
               /\ run_obs' = [run_obs EXCEPT !.stamps = Append(@, run.processed_max_end_at)]
               /\ run' = [run EXCEPT !.pc = "done"]
          ELSE /\ run' = [run EXCEPT !.pc = "raised"]
               /\ UNCHANGED <<db_last_updated, run_obs>>
    /\ UNCHANGED <<args, nodes>>
    /\ UNCHANGED <<rqVars, dbVars, evVars, tnVars, pageVars, sbVars>>

NextMain ==
    \/ MainStart
    \/ NodeWithoutSlug
    \/ LimitReached
    \/ ObserveOnly
    \/ ProcessNode
    \/ MainEnd

SpecMain == InitMain /\ [][NextMain]_vars

-----------------------------------------------------------------------------
(* Claims about main *)

RunOver == run.pc \in {"done", "raised", "exit"}

RECURSIVE SlugsTaken(_, _)
SlugsTaken(i, taken) ==
    IF i > Len(nodes) THEN taken
    ELSE IF nodes[i].slug = NoSlug THEN SlugsTaken(i + 1, taken)
    ELSE IF args.max_tournaments # None /\ Len(taken) >= args.max_tournaments THEN taken
    ELSE SlugsTaken(i + 1, Append(taken, nodes[i].slug))

\* C14: a non-dry run in which no request and no write fails hands every
\* summary with a slug to process_tournament, counts each as processed and
\* ends by writing the watermark.
C14_AllProcessedAndStamped ==
    (RunOver /\ ~args.dry_run /\ ~run_obs.upstream_failed) =>
        /\ run.pc = "done"
        /\ run_obs.completed = SlugsTaken(1, <<>>)
        /\ run.processed = Len(SlugsTaken(1, <<>>))
        /\ SlugsTaken(1, <<>>) # <<>> => Len(run_obs.stamps) = 1

\* C15: without --continue-on-error the first failure of process_tournament
\* ends the run: the failed tournament is the last one handed over, and the
\* watermark is not written.
C15_FirstFailureAborts ==
    (~args.continue_on_error /\ run.failed > 0) =>
        /\ run.pc = "raised"
        /\ run.failed = 1
        /\ run.failed_slugs = <<run_obs.handed[Len(run_obs.handed)]>>
        /\ run_obs.stamps = <<>>
        /\ db_last_updated = run_obs.before

\* the run was ended by its first failure while a tournament was left, with
\* a --max-errors that would have allowed a further failure
C15_Witness ==
    /\ ~args.continue_on_error
    /\ run.pc = "raised"
    /\ args.max_errors > 1
    /\ args.max_tournaments = None
    /\ run.i < Len(nodes)
    /\ nodes[run.i + 1].slug # NoSlug

Ceiling == Max(1, args.max_errors)

\* C16: with --continue-on-error the failures are counted and the loop goes
\* on while the count is below max(1, max_errors); the run exits exactly
\* when the count reaches that ceiling, the count never exceeds it, and the
\* exit leaves the watermark unwritten.
C16_FailuresBoundedByCeiling ==
    args.continue_on_error =>
        /\ run.failed <= Ceiling
        /\ run.pc = "exit" <=> run.failed = Ceiling
        /\ run.failed = Len(run.failed_slugs)
        /\ run.pc = "exit" => /\ run_obs.stamps = <<>>
                              /\ db_last_updated = run_obs.before

\* the first failure was counted and the next tournament handed over; the
\* second failure reached the ceiling
C16_Witness ==
    /\ args.continue_on_error
    /\ run.pc = "exit"
    /\ run.failed = 2
    /\ Len(run_obs.handed) = 2

\* C17: a dry run makes no write call: process_tournament, which does the
\* rating, name, history and videogame-mapping writes, is never called, and
\* the watermark is not set.
C17_DryRunWritesNothing ==
    (args.dry_run /\ run.pc # "start") =>
        /\ run_obs.handed = <<>>
        /\ run.processed = 0
        /\ run_obs.stamps = <<>>
        /\ db_last_updated = run_obs.before

\* a finished dry run that saw a tournament which ended after after_date
C17_Witness ==
    /\ args.dry_run
    /\ run.pc = "done"
    /\ run.seen >= 1
    /\ run.max_end_at > run.after_date

\* C28: the sub-batches requested in an event, put one after the other, are
\* the entrant ids handled so far in their input order (so that at the end
\* every entrant id is in exactly one sub-batch); none holds more than
\* max_batch_size ids; and each is requested when the matches of all
\* sub-batches before it have been applied.
C28_SubBatchesPartitionEntrants ==
    ev_pc \in {"batch", "save"} =>
        /\ Concat([k \in 1..Len(obs.batches) |-> obs.batches[k].ids])
              = SubSeq(entrant_ids, 1, Min(batch_i, Len(entrant_ids)))
        /\ ev_pc = "save" => batch_i >= Len(entrant_ids)
        /\ \A k \in 1..Len(obs.batches) :
              /\ Len(obs.batches[k].ids) \in 1..25
              /\ obs.batches[k].applied_before = k - 1

\* an event whose entrants need a full first sub-batch and a second one
C28_Witness ==
    /\ ev_pc = "save"
    /\ Len(entrant_ids) > max_batch_size
    /\ Len(obs.batches) = 2
    /\ Len(obs.batches[1].ids) = max_batch_size
    /\ obs.batches[2].ids = SubSeq(entrant_ids, max_batch_size + 1, Len(entrant_ids))
    /\ obs.ev_matches # <<>>

\* a set the aliases other than the null one hold, which is a match
OtherAliasesHaveMatch ==
    \E s \in Range(payload.sets) :
        /\ s.winnerId \in {s.slots[1], s.slots[2]}
        /\ {s.slots[1], s.slots[2]} \subseteq DOMAIN entrant_to_player
        /\ \E k \in 1..2 :
              /\ s.slots[k] \in Range(obs.batches[Len(obs.batches)].ids)
              /\ s.slots[k] # obs.batches[Len(obs.batches)].ids[obs.null_alias]

\* C30: when one alias of the answer to a set request is null, the
\* sub-batch is not aborted and the sets of the other aliases are converted:
\* a match they hold is among the matches of the event.
C30_NullAliasSkipped ==
    obs.null_alias # 0 =>
        /\ ev_pc # "raised"
        /\ OtherAliasesHaveMatch => obs.ev_matches # <<>>

\* save_players has written the player map of the event
Saved == obs.persisted /\ ev_pc = "idle"

RankOf(pid) == db_ranking.row[pid].ranking

\* C22: save_players gives the N players of the map the ranks 1..N, each
\* once; a strictly higher rating has a strictly smaller rank, and players
\* of equal rating are ranked in their order in the player map.
C22_RanksFollowRating ==
    Saved =>
        /\ Range(players.order) = DOMAIN players.p
        /\ {RankOf(pid) : pid \in DOMAIN players.p} = 1..Cardinality(DOMAIN players.p)
        /\ \A i \in 1..Len(players.order) :
           \A j \in (i + 1)..Len(players.order) :
              \E a \in {players.order[i]} :
              \E b \in {players.order[j]} :
                 /\ players.p[a].rating > players.p[b].rating => RankOf(a) < RankOf(b)
                 /\ players.p[a].rating < players.p[b].rating => RankOf(b) < RankOf(a)
                 /\ players.p[a].rating = players.p[b].rating => RankOf(a) < RankOf(b)

\* a saved map in which a later player has a higher rating than an earlier
\* one, and two players have the same rating
C22_Witness ==
    /\ Saved
    /\ \E i, j \in 1..Len(players.order) :
          /\ i < j
          /\ players.p[players.order[i]].rating < players.p[players.order[j]].rating
          /\ RankOf(players.order[j]) < RankOf(players.order[i])
    /\ \E i, j \in 1..Len(players.order) :
          /\ i < j
          /\ players.p[players.order[i]].rating = players.p[players.order[j]].rating

\* C23: after the event has been ingested a second time, every player's
\* persisted rating and appearance counter equal those persisted by the
\* first ingestion.
C23_SecondIngestionChangesNothing ==
    obs.ingested >= 2 =>
        \A pid \in DOMAIN obs.first_saved :
            /\ db_ranking.row[pid].rating = obs.first_saved[pid].rating
            /\ db_ranking.row[pid].appearances = obs.first_saved[pid].appearances

\* both slots of the set are mapped to players and its winner id is the
\* entrant id of neither
WinnerInNoSlot(s) ==
    /\ ~UnmappedSlot(s)
    /\ s.winnerId \notin {s.slots[1], s.slots[2]}

\* C39: a set whose winner id equals neither of its two slot entrant ids,
\* both slots mapped, yields no match, and once returned it is in the
\* seen-set registry of the event, so that no later alias converts it.
C39_WinnerInNoSlotSkipped ==
    ev_pc \in {"batch", "save"} =>
        \A s \in Range(payload.sets) :
            WinnerInNoSlot(s) =>
                /\ s.id \notin SetIdsOf(obs.ev_matches)
                /\ Returned(s) => s.id \in seen_sets

\* such a set was returned, next to a set that became a match
C39_Witness ==
    /\ ev_pc = "save"
    /\ obs.ev_matches # <<>>
    /\ \E s \in Range(payload.sets) :
          /\ WinnerInNoSlot(s)
          /\ Returned(s)
          /\ s.id \in seen_sets

OpsAt(names) == {j \in 1..Len(obs.ops) : obs.ops[j].op \in names}

\* the pairs recorded for sub-batch k, in the order of the calls
Recorded(k) ==
    Concat([j \in 1..Len(obs.ops) |->
               IF obs.ops[j].op = "record" /\ obs.ops[j].batch = k
               THEN obs.ops[j].rows ELSE <<>>])

\* C37: with a history repository, the history records of a sub-batch are
\* its extracted matches, one record each and in match order, all written
\* before the apply_matches call of that sub-batch; save_players and
\* save_names come only after the calls of the last sub-batch.
C37_HistoryBeforeRatings ==
    /\ \A j \in OpsAt({"apply_matches"}) :
          /\ Recorded(obs.ops[j].batch) = IF save_history THEN obs.ops[j].rows ELSE <<>>
          /\ \A i \in OpsAt({"record"}) :
                obs.ops[i].batch = obs.ops[j].batch => i < j
    /\ \A j \in OpsAt({"save_players", "save_names"}) :
          /\ \A i \in OpsAt({"record", "apply_matches"}) : i < j
          /\ Cardinality(OpsAt({"apply_matches"})) * max_batch_size >= Len(entrant_ids)

\* an event of two sub-batches, each with a match to record, is saved
C37_Witness ==
    /\ save_history
    /\ obs.persisted
    /\ \E i, j \in OpsAt({"record"}) :
          obs.ops[i].batch = 1 /\ obs.ops[j].batch = 2

\* main is in or past its loop over the summaries
InLoop == run.pc \notin {"idle", "start"}

C35_Ordered ==
    InLoop =>
        /\ run.processed_max_end_at <= run.max_end_at
        /\ run.processed_max_end_at >= run.after_date
        /\ run.max_end_at >= run.after_date

C35_ChangesAfterReturn ==
    (InLoop /\ run'.processed_max_end_at # run.processed_max_end_at)
        => /\ run_obs'.handed = Append(run_obs.handed, Node.slug)
           /\ run_obs'.completed = Append(run_obs.completed, Node.slug)

\* C35: in every state of the controller loop processed_max_end_at is at
\* most max_end_at and both are at least the after_date of the run; and
\* processed_max_end_at changes only in the step in which a
\* process_tournament call returned without raising.
C35_ProcessedWatermarkBounded == []C35_Ordered /\ [][C35_ChangesAfterReturn]_vars

\* a summary that ended after after_date was handed over and failed:
\* max_end_at has moved, processed_max_end_at has not
C35_Witness ==
    /\ run.failed > 0
    /\ run.max_end_at > run.after_date
    /\ run.processed_max_end_at = run.after_date

\* C36: a run that counted no tournament as processed does not call
\* set_timestamp: the stored watermark is the one read before the run.
C36_NoProcessedNoStamp ==
    (RunOver /\ run.processed = 0) =>
        /\ run_obs.stamps = <<>>
        /\ db_last_updated = run_obs.before

\* a run in continue-on-error mode in which the tournament handed over
\* failed, ended normally
C36_Witness ==
    /\ run.pc = "done"
    /\ ~args.dry_run
    /\ args.continue_on_error
    /\ run.failed > 0
    /\ run.processed = 0
    /\ db_last_updated = run_obs.before

-----------------------------------------------------------------------------
(* RatingService.apply_matches on its own: any player map, any match list *)

\* the player map holds the ids 1..n, n up to MaxRatingPlayers
MaxRatingPlayers == 3
\* ids of a match beyond those of the largest map
MaxStrangers == 1
\* matches of one call
MaxRatingMatches == 2

RatedPlayer(i) == [rating |-> DefaultRating + 50 * i, rd |-> 200, vol |-> DefaultVol,
                   appearances |-> 1]

\* players: Dict[int, Player], in insertion order
PlayerMaps ==
    {[order |-> [i \in 1..n |-> i], p |-> [i \in 1..n |-> RatedPlayer(i)]] :
        n \in 0..MaxRatingPlayers}

\* matches: List[Match]; an id may be outside the map, and the two ids of
\* a match may be the same
MatchLists ==
    UNION {[1..n -> (1..(MaxRatingPlayers + MaxStrangers)) \X (1..(MaxRatingPlayers + MaxStrangers))] :
              n \in 0..MaxRatingMatches}

Matches(pairs) == [k \in 1..Len(pairs) |-> MatchOf(pairs[k][1], pairs[k][2], k)]

InitRating ==
    /\ PagesPartIdle
    /\ ServicePartIdle
    /\ QueryPartIdle
    /\ TournamentPartIdle
    /\ MainPartIdle
    /\ db_ranking = [order |-> <<>>, row |-> EmptyFn]
    /\ db_names = EmptyFn
    /\ db_history = <<>>
    /\ payload = [entrants |-> <<>>, sets |-> <<>>]
    /\ save_history = FALSE
    /\ ev_pc = "rating"
    /\ players \in PlayerMaps
    /\ name_map = EmptyFn
    /\ entrant_to_player = EmptyFn
    /\ entrant_ids = <<>>
    /\ seen_sets = {}
    /\ batch_i = 0
    /\ events_started = 0
    /\ obs = NoObs

\* rating_service.py:8-23: one call apply_matches(players, matches)
ApplyMatches ==
    /\ ev_pc = "rating"
    /\ \E pairs \in MatchLists :
       \E a \in {apply_matches(players, Matches(pairs))} :
          /\ players' = a.players
          /\ obs' = [obs EXCEPT !.call_start = players.p,
                                !.call_updates = a.calls,
                                !.call_matches = Matches(pairs)]
    /\ ev_pc' = "rated"
    /\ UNCHANGED <<payload, save_history, name_map, entrant_to_player, entrant_ids,
                   seen_sets, batch_i, events_started>>
    /\ UNCHANGED <<tnVars, mainVars, rqVars, dbVars, pageVars, sbVars>>

NextRating == ApplyMatches

SpecRating == InitRating /\ [][NextRating]_vars

\* the call has returned
Rated == ev_pc = "rated"

\* both ids of the match are keys of the player map
InMap(m) == m.winner \in DOMAIN obs.call_start /\ m.loser \in DOMAIN obs.call_start

\* the matches of the call without those that name an id outside the map
MatchesInMap == SelectSeq(obs.call_matches, InMap)

SameRating(a, b) == a.rating = b.rating /\ a.rd = b.rd /\ a.vol = b.vol

\* C32: a player who takes part in none of the matches of the call is left
\* unchanged: update_player is not invoked for the player, and rating,
\* deviation and volatility are after the call what they were before.
C32_IdlePlayerUntouched ==
    Rated =>
        \A pid \in DOMAIN obs.call_start :
            Participations(obs.call_matches, pid) = 0 =>
                /\ CallsFor(obs.call_updates, pid) = {}
                /\ SameRating(players.p[pid], obs.call_start[pid])

\* a call that updates one player and leaves another one alone
C32_Witness ==
    /\ Rated
    /\ obs.call_updates # <<>>
    /\ \E pid \in DOMAIN obs.call_start :
          /\ Participations(obs.call_matches, pid) = 0
          /\ players.p[pid] = obs.call_start[pid]

\* C33: a match whose winner or loser id is not in the player map is
\* dropped as a whole: the call returns, no result of it reaches either
\* side, and the outcome of the call is that of the call without it.
C33_StrangerMatchDropped ==
    Rated =>
        /\ \A k \in 1..Len(obs.call_updates) :
           \A g \in 1..Len(obs.call_updates[k].games) :
              obs.call_updates[k].games[g].opp \in DOMAIN obs.call_start
        /\ TupleCount(obs.call_updates) = 2 * Len(MatchesInMap)
        /\ \E a \in {apply_matches([order |-> players.order, p |-> obs.call_start],
                                    MatchesInMap)} :
              /\ a.players = players
              /\ a.calls = obs.call_updates

\* a call with a match whose winner is in the map and whose loser is not,
\* next to a match of two players of the map
C33_Witness ==
    /\ Rated
    /\ MatchesInMap # <<>>
    /\ \E k \in 1..Len(obs.call_matches) :
          /\ obs.call_matches[k].winner \in DOMAIN obs.call_start
          /\ obs.call_matches[k].loser \notin DOMAIN obs.call_start

ResultsWith(games, score) == Cardinality({g \in 1..Len(games) : games[g].score = score})

Wins(ms, pid) == Cardinality({i \in 1..Len(ms) : ms[i].winner = pid})

Losses(ms, pid) == Cardinality({i \in 1..Len(ms) : ms[i].loser = pid})

\* C38: every match whose two players are in the player map gives one
\* result with outcome 1 to its winner and one with outcome 0 to its loser:
\* a player of such matches is updated once, with as many results of
\* either outcome as the player has wins and losses; the keys of the map
\* are those before the call.
C38_OneResultPerSideAndMatch ==
    Rated =>
        /\ DOMAIN players.p = DOMAIN obs.call_start
        /\ \A pid \in DOMAIN obs.call_start :
              Participations(MatchesInMap, pid) > 0 =>
                  \E k \in 1..Len(obs.call_updates) :
                      /\ CallsFor(obs.call_updates, pid) = {k}
                      /\ ResultsWith(obs.call_updates[k].games, 1) = Wins(MatchesInMap, pid)
                      /\ ResultsWith(obs.call_updates[k].games, 0) = Losses(MatchesInMap, pid)
                      /\ Len(obs.call_updates[k].games) = Participations(MatchesInMap, pid)

\* a player who wins one match of the call and loses another
C38_Witness ==
    /\ Rated
    /\ \E pid \in DOMAIN obs.call_start :
          /\ Wins(MatchesInMap, pid) = 1
          /\ Losses(MatchesInMap, pid) = 1
          /\ \E k \in CallsFor(obs.call_updates, pid) : Len(obs.call_updates[k].games) = 2

-----------------------------------------------------------------------------
(* query.fetch_tournaments_paginated: the generator of tournament summaries *)

\* largest totalPages an answer reports
MaxTotalPages == 3
\* nodes of one page
MaxPageNodes == 2

\* pageInfo.totalPages of an answer: absent, or a number
TotalPagesValues == {None} \cup (0..MaxTotalPages)

\* query.py:495: int(page_info.get("totalPages") or 1)
OrOne(x) == IF x = None \/ x = 0 THEN 1 ELSE x

\* the loop stops one page early
HasMorePagesStrict(page, total_pages) == page < total_pages

\* query.py:464: while page <= total_pages
HasMorePages(page, total_pages) == page <= total_pages

PagesLoopPc(page, total_pages) ==
    IF HasMorePages(page, total_pages) THEN "fetching" ELSE "done"

\* the observer's note of a request and its answer
PageRequest(page, kind, totalPages, n) ==
    [page |-> page, kind |-> kind, totalPages |-> totalPages, nodes |-> n]

\* query.py:462-464
InitPages ==
    /\ QueryPartIdle
    /\ EventPartIdle
    /\ TournamentPartIdle
    /\ MainPartIdle
    /\ ServicePartIdle
    /\ pg = [pc |-> PagesLoopPc(1, 1), page |-> 1, total_pages |-> 1, pending |-> 0]
    /\ pg_obs = [requests |-> <<>>, yielded |-> <<>>]

\* query.py:508 and 464: page += 1 and the loop test
NextPage(total_pages) ==
    [pg EXCEPT !.page = @ + 1,
               !.total_pages = total_pages,
               !.pending = 0,
               !.pc = PagesLoopPc(pg.page + 1, total_pages)]

\* query.py:486-495: the request of a page is answered with tournaments data
PageData ==
    /\ pg.pc = "fetching"
    /\ \E tp \in TotalPagesValues, n \in 0..MaxPageNodes :
          /\ pg' = IF n = 0
                   THEN NextPage(OrOne(tp))
                   ELSE [pg EXCEPT !.total_pages = OrOne(tp), !.pending = n,
                                   !.pc = "yielding"]
          /\ pg_obs' = [requests |-> Append(pg_obs.requests,
                                            PageRequest(pg.page, "data", tp, n)),
                        yielded |-> Append(pg_obs.yielded, 0)]
    /\ UNCHANGED <<rqVars, dbVars, evVars, tnVars, mainVars, sbVars>>

\* query.py:489-492: the answer has no data, or tournaments is null: return
PageNoData ==
    /\ pg.pc = "fetching"
    /\ pg' = [pg EXCEPT !.pc = "done"]
    /\ pg_obs' = [requests |-> Append(pg_obs.requests,
                                      PageRequest(pg.page, "nodata", None, 0)),
                  yielded |-> Append(pg_obs.yielded, 0)]
    /\ UNCHANGED <<rqVars, dbVars, evVars, tnVars, mainVars, sbVars>>

\* query.py:487-488: the answer has an "errors" field: raise Exception
PageErrors ==
    /\ pg.pc = "fetching"
    /\ pg' = [pg EXCEPT !.pc = "raised"]
    /\ pg_obs' = [requests |-> Append(pg_obs.requests,
                                      PageRequest(pg.page, "errors", None, 0)),
                  yielded |-> Append(pg_obs.yielded, 0)]
    /\ UNCHANGED <<rqVars, dbVars, evVars, tnVars, mainVars, sbVars>>

\* query.py:506-508: the consumer takes the next node of the page
YieldNode ==
    /\ pg.pc = "yielding"
    /\ pg' = IF pg.pending = 1
             THEN NextPage(pg.total_pages)
             ELSE [pg EXCEPT !.pending = @ - 1]
    /\ pg_obs' = [pg_obs EXCEPT !.yielded[Len(pg_obs.yielded)] = @ + 1]
    /\ UNCHANGED <<rqVars, dbVars, evVars, tnVars, mainVars, sbVars>>

NextPages ==
    \/ PageData
    \/ PageNoData
    \/ PageErrors
    \/ YieldNode

\* every request is answered and the consumer goes on iterating
SpecPages == InitPages /\ [][NextPages]_vars /\ WF_vars(NextPages)

PagesOver == pg.pc \in {"done", "raised"}

\* the pages are requested in the order 1, 2, ..., each once
AscendingOnce == \A i \in 1..Len(pg_obs.requests) : pg_obs.requests[i].page = i

\* every node of a page is yielded before the next page is requested
YieldedBeforeNext ==
    \A i \in 1..Len(pg_obs.requests) :
        /\ pg_obs.yielded[i] <= pg_obs.requests[i].nodes
        /\ (i < Len(pg_obs.requests) \/ pg.pc \in {"fetching", "done"})
              => pg_obs.yielded[i] = pg_obs.requests[i].nodes

\* the answer is the last one as the claim states it: it has no tournaments
\* data, or its totalPages is the number of its page
LastAsStated(r) == r.kind # "data" \/ r.page = r.totalPages

\* the answer is the last one: it has no tournaments data, or the number of
\* its page has reached its totalPages, an absent or zero totalPages being 1
LastPage(r) == r.kind # "data" \/ r.page >= OrOne(r.totalPages)

EndsAt(Last(_)) ==
    /\ \A i \in 1..(Len(pg_obs.requests) - 1) : ~Last(pg_obs.requests[i])
    /\ pg.pc = "fetching" /\ pg_obs.requests # <<>>
          => ~Last(pg_obs.requests[Len(pg_obs.requests)])
    /\ PagesOver
          => /\ pg_obs.requests # <<>>
             /\ Last(pg_obs.requests[Len(pg_obs.requests)])
             /\ pg.pc = "raised" <=> pg_obs.requests[Len(pg_obs.requests)].kind = "errors"

\* C31 as stated: pages are requested in ascending order, each once, the
\* nodes of a page are yielded before the next request, and the generator
\* ends after the page whose number equals the totalPages of its answer, or
\* at the first answer without tournaments data.
C31_EndsAtTotalPages == AscendingOnce /\ YieldedBeforeNext /\ EndsAt(LastAsStated)

C31_Safe == AscendingOnce /\ YieldedBeforeNext /\ EndsAt(LastPage)

\* C31: pages are requested in ascending order, each once, the nodes of a
\* page are yielded before the next request, and the generator ends after
\* the first page whose number is at least the totalPages of its answer (an
\* absent or zero totalPages counting as 1), or at the first answer without
\* tournaments data; with totalPages bounded it always ends.
C31_PagesInOrderAndEnds == []C31_Safe /\ <>PagesOver

\* the generator ended after page 2, whose answer reported fewer pages than
\* the answer of page 1 had, and every node of both pages was yielded
C31_Witness ==
    /\ pg.pc = "done"
    /\ Len(pg_obs.requests) = 2
    /\ pg_obs.requests[1].totalPages = MaxTotalPages
    /\ pg_obs.requests[2].kind = "data"
    /\ pg_obs.requests[2].totalPages = 1
    /\ pg_obs.yielded = <<MaxPageNodes, MaxPageNodes>>

-----------------------------------------------------------------------------
(* SupabaseService._with_retries *)

\* largest value of SUPABASE_MAX_RETRIES that is tried (the default is 5):
\* large enough for the exponent of the sleep to pass its cap
MaxRetriesService == 7
\* SUPABASE_RETRY_BASE_SLEEP is 0..MaxBaseSleep (whole seconds)
MaxBaseSleep == 2

\* supabase_service.py:88
service_backoff_cap == 6

\* an exception: the dotted module of its type and the name of its type
Err(mod, name) == [mod |-> mod, name |-> name]

\* the exceptions fn() is made to raise
Errors ==
    {Err(<<"httpx">>, "RemoteProtocolError"),
     Err(<<"httpcore">>, "ConnectError"),
     Err(<<"httpx">>, "ReadTimeout"),
     Err(<<"httpx">>, "HTTPStatusError"),
     Err(<<"requests", "exceptions">>, "ReadTimeout"),
     Err(<<"postgrest", "exceptions">>, "APIError")}

\* supabase_service.py:50-61 (the test on the module is on its first part)
should_retry_exception(err) ==
    /\ Head(err.mod) \in {"httpx", "httpcore"}
    /\ err.name \in {"RemoteProtocolError", "ConnectError", "ReadTimeout",
                     "WriteError", "NetworkError", "ProtocolError"}

\* the exponent is not capped
ServiceSleepUncapped(base_sleep, attempt) == base_sleep * (2 ^ attempt)

\* supabase_service.py:88
ServiceSleep(base_sleep, attempt) ==
    base_sleep * (2 ^ Min(attempt, service_backoff_cap))

\* supabase_service.py:82-83: the exception is raised again
Reraised(attempt, max, err) == attempt > max \/ ~should_retry_exception(err)

\* supabase_service.py:25-26 and 77-78
InitService ==
    /\ QueryPartIdle
    /\ EventPartIdle
    /\ TournamentPartIdle
    /\ MainPartIdle
    /\ PagesPartIdle
    /\ \E max \in 0..MaxRetriesService, base \in 0..MaxBaseSleep :
          sb = [pc |-> "call", attempt |-> 0, max_retries |-> max, base_sleep |-> base,
                sleep_time |-> 0]
    /\ sb_obs = [calls |-> 0, last |-> NoErr, resets |-> 0, slept |-> 0]

\* supabase_service.py:80-81: fn() returns
CallReturns ==
    /\ sb.pc = "call"
    /\ sb' = [sb EXCEPT !.pc = "returned"]
    /\ sb_obs' = [sb_obs EXCEPT !.calls = @ + 1]
    /\ UNCHANGED <<rqVars, dbVars, evVars, tnVars, mainVars, pageVars>>

\* supabase_service.py:80-101: fn() raises; the exception is raised again,
\* or the client is reset (RemoteProtocolError) and the call sleeps
CallFails ==
    /\ sb.pc = "call"
    /\ \E err \in Errors :
          IF Reraised(sb.attempt + 1, sb.max_retries, err)
          THEN /\ sb' = [sb EXCEPT !.attempt = @ + 1, !.pc = "raised"]
               /\ sb_obs' = [sb_obs EXCEPT !.calls = @ + 1, !.last = err]
          ELSE /\ sb' = [sb EXCEPT !.attempt = @ + 1,
                                   !.sleep_time = ServiceSleep(sb.base_sleep, sb.attempt + 1)]
               /\ sb_obs' = [sb_obs EXCEPT
                                !.calls = @ + 1,
                                !.last = err,
                                !.resets = IF err.name = "RemoteProtocolError"
                                           THEN @ + 1 ELSE @,
                                !.slept = @ + 1]
    /\ UNCHANGED <<rqVars, dbVars, evVars, tnVars, mainVars, pageVars>>

\* supabase_service.py:80-86 with 63-75: fn() raises RemoteProtocolError and
\* create_client or _auth raises in _reset_client; that exception leaves
\* the handler
CallFailsResetFails ==
    /\ sb.pc = "call"
    /\ \E err \in {e \in Errors : e.name = "RemoteProtocolError"} :
          /\ ~Reraised(sb.attempt + 1, sb.max_retries, err)
          /\ sb' = [sb EXCEPT !.attempt = @ + 1, !.pc = "raised"]
          /\ sb_obs' = [sb_obs EXCEPT !.calls = @ + 1, !.last = err]
    /\ UNCHANGED <<rqVars, dbVars, evVars, tnVars, mainVars, pageVars>>

NextService ==
    \/ CallReturns
    \/ CallFails
    \/ CallFailsResetFails

SpecService == InitService /\ [][NextService]_vars

\* C40: the operation is called at most max_retries + 1 times; an exception
\* that is not a retryable transport error is raised again when it first
\* occurs, a retryable one when the attempt count has passed max_retries;
\* the sleep before the next attempt is base_sleep * 2^min(attempt, 6),
\* never more than 64 * base_sleep.
C40_BoundedRetries ==
    /\ sb_obs.calls <= sb.max_retries + 1
    /\ (sb_obs.last # NoErr /\ ~should_retry_exception(sb_obs.last)) => sb.pc = "raised"
    /\ sb.attempt > sb.max_retries => sb.pc = "raised"
    /\ (sb_obs.slept > 0 /\ sb.pc # "raised")
          => sb.sleep_time = sb.base_sleep * (2 ^ Min(sb.attempt, 6))
    /\ sb.sleep_time <= 64 * sb.base_sleep

\* seven retryable failures were slept on, the last sleep at the cap, and
\* the eighth call ended the retries
C40_Witness ==
    /\ sb.pc = "raised"
    /\ should_retry_exception(sb_obs.last)
    /\ sb.max_retries = MaxRetriesService
    /\ sb_obs.calls = sb.max_retries + 1
    /\ sb_obs.slept = sb.max_retries
    /\ sb.base_sleep > 0
    /\ sb.sleep_time = 64 * sb.base_sleep

====
